---- MODULE Spec2Model ----
(***************************************************************************)
(* A model of the GST reconciliation engine (src/RECONCILATION).           *)
(*                                                                         *)
(* Money is an integer number of paise (1/100 rupee), so that the values   *)
(* of the documented examples (1055.25) are exact.  A fractional threshold *)
(* such as PERCENTAGE_THRESHOLD = 0.01 is kept as a number of hundredths,  *)
(* and every comparison of quotients is cross-multiplied.                  *)
(*                                                                         *)
(* The engine is stateless between calls, so every component is modelled   *)
(* as a call on input tables held in variables; the variables of the       *)
(* components a specification does not exercise stay idle.                 *)
(***************************************************************************)
EXTENDS Integers, Sequences, FiniteSets, TLC

VARIABLES
    \* GSTR1BooksReconciliation / GSTR2BooksReconciliation.reconcile
    gstr_df, books_df, results, booksPc,
    \* the number of reconciliation calls made on the tables, and what the
    \* call before the last one gave
    calls, previous,
    \* GSTR1BooksReconciliation / GSTR2BooksReconciliation.load_data
    load_variant, gstr_columns, books_columns, loadPc,
    \* reconcile_gstr1_eway / reconcile_gstr2_eway / reconcile_gstr1_einvoice
    eway_variant, gstr1_data, eway_data, eway_results, ewayPc,
    \* main.py reconciliation loop
    df_2b, df_csv, csv_index, rowPos, matched, mismatched,
    missing_in_csv, missing_in_json, summary, mainPc,
    \* the tolerance tests, applied to one pair of values
    cmp_a, cmp_b, amount_threshold, percentage_threshold, verdict, cmpPc,
    \* GSTR3BGSTR1Reconciliation.compare_returns
    gstr3b_data, gstr1_sections, detailed_comparison, summary_data, returnsPc,
    \* process_reconciliation / generic_reconciliation / apply_thresholds
    recon_type, mapping_arg, source1_df, source2_df, result_df, error, procPc,
    \* preprocess_data, called on one table
    pre_df, pre_mapping, from_date_arg, to_date_arg, pre_out, prePc

loadVars  == <<load_variant, gstr_columns, books_columns, loadPc>>
callVars  == <<calls, previous>>
booksVars == <<gstr_df, books_df, results, booksPc, loadVars, callVars>>
ewayVars  == <<eway_variant, gstr1_data, eway_data, eway_results, ewayPc>>
mainVars  == <<df_2b, df_csv, csv_index, rowPos, matched, mismatched,
               missing_in_csv, missing_in_json, summary, mainPc>>
returnsVars == <<gstr3b_data, gstr1_sections, detailed_comparison, summary_data,
                 returnsPc>>
cmpVars   == <<cmp_a, cmp_b, amount_threshold, percentage_threshold, verdict, cmpPc,
               returnsVars>>
preVars   == <<pre_df, pre_mapping, from_date_arg, to_date_arg, pre_out, prePc>>
procVars  == <<recon_type, mapping_arg, source1_df, source2_df, result_df, error,
               procPc, preVars>>
vars      == <<booksVars, ewayVars, mainVars, cmpVars, procVars>>

(***************************************************************************)
(* Units and configuration (config.py).                                    *)
(***************************************************************************)
Rupee == 100                   \* paise in one currency unit
Hundredths == 100              \* a fraction f is kept as f * Hundredths
AMOUNT_THRESHOLD == 100        \* 1.0 rupee
PERCENTAGE_THRESHOLD == 1      \* 0.01

Abs(x) == IF x < 0 THEN -x ELSE x
Max2(x, y) == IF x >= y THEN x ELSE y
Max3(x, y, z) == Max2(Max2(x, y), z)

\* A table cell: <<>> is NaN / a missing value, <<v>> the number v.
NaN == <<>>
Num(v) == <<v>>
IsNa(c) == c = NaN
NULL == "<null>"               \* a null cell of a text column
NaT == "NaT"                   \* an Invoice Date that pd.to_datetime coerced
None == "<None>"

\* The indices of a sequence, and the first index that satisfies a test.
Idx(s) == 1 .. Len(s)
MinOf(S) == CHOOSE i \in S : \A j \in S : i <= j

(***************************************************************************)
(* The record-level Differ of the class-based reconcilers.                 *)
(***************************************************************************)
\* gstr1_books.py:155-159.  percent_diff = abs_diff / max(|a|,|b|,1) * 100 is
\* compared with percentage_threshold * 100; both sides are multiplied by the
\* (positive) denominator.
PercentExceeds(a, b, pct) ==
    Abs(a - b) * 100 * Hundredths > pct * 100 * Max3(Abs(a), Abs(b), Rupee)

FieldDiscrepant(a, b, amt, pct) ==
    IF Abs(a - b) > amt
    THEN IF Max2(Abs(a), Abs(b)) > 0
         THEN PercentExceeds(a, b, pct)
         ELSE FALSE              \* percent_diff = 0 is never > threshold >= 0
    ELSE FALSE

(***************************************************************************)
(* GSTR1BooksReconciliation.reconcile / GSTR2BooksReconciliation.reconcile *)
(* (the two methods differ only in the name of the counterparty column and *)
(* in fields copied to the result entries).                                *)
(*                                                                         *)
(* A table is a sequence of rows; a row is a record of its key cells       *)
(* (inv, date, gstin) and of vals, its numeric cells by column.  Result    *)
(* entries carry, next to the fields the code copies, the positions a and  *)
(* b of the rows they were built from.                                     *)
(***************************************************************************)
value_columns ==
    {"Invoice Value", "Taxable Value", "Integrated Tax",
     "Central Tax", "State/UT Tax", "Cess"}

\* f"{Invoice Number}_{Invoice Date:%Y-%m-%d}_{GSTIN}": the three cells as
\* they are, neither case-folded nor trimmed.
MatchKey(r) == <<r.inv, r.date, r.gstin>>

\* x['Invoice Date'].strftime(...) raises on NaT.
KeyRaises(df) == \E i \in Idx(df) : df[i].date = NaT

\* A reconcile that would write over the Invoice Date column while it
\* formats the key.
WithMatchKeyOverDate(df) ==
    [i \in Idx(df) |->
        [inv |-> df[i].inv, date |-> NaT, gstin |-> df[i].gstin,
         vals |-> df[i].vals, match_key |-> MatchKey(df[i])]]

\* df['match_key'] = df.apply(...): the column is added to the caller's table.
WithMatchKey(df) ==
    [i \in Idx(df) |->
        [inv |-> df[i].inv, date |-> df[i].date, gstin |-> df[i].gstin,
         vals |-> df[i].vals, match_key |-> MatchKey(df[i])]]

KeysOf(df) == {MatchKey(df[i]) : i \in Idx(df)}

\* df[df['match_key'] == key].iloc[0]
FirstRow(df, key) == MinOf({i \in Idx(df) : MatchKey(df[i]) = key})

\* value if not pd.isna(value) else 0
ZeroIfNa(c) == IF IsNa(c) THEN 0 ELSE c[1]

\* gstr1_books.py:146-166: the columns of a pair that are flagged.
Differences(ra, rb) ==
    LET flagged == {c \in value_columns :
                      FieldDiscrepant(ZeroIfNa(ra.vals[c]), ZeroIfNa(rb.vals[c]),
                                      AMOUNT_THRESHOLD, PERCENTAGE_THRESHOLD)}
    IN  [c \in flagged |->
            [gstr |-> ZeroIfNa(ra.vals[c]), books |-> ZeroIfNa(rb.vals[c]),
             difference |-> ZeroIfNa(ra.vals[c]) - ZeroIfNa(rb.vals[c])]]

PairEntry(a_df, b_df, key) ==
    LET i == FirstRow(a_df, key)
        j == FirstRow(b_df, key)
    IN  [a |-> i, b |-> j,
         invoice_number |-> a_df[i].inv, invoice_date |-> a_df[i].date,
         gstin |-> a_df[i].gstin,
         differences |-> Differences(a_df[i], b_df[j])]

MissingEntry(df, key) ==
    LET i == FirstRow(df, key)
    IN  [row |-> i, invoice_number |-> df[i].inv, invoice_date |-> df[i].date,
         gstin |-> df[i].gstin, value |-> df[i].vals["Invoice Value"]]

BooksResults(a_df, b_df) ==
    LET gstr_keys   == KeysOf(a_df)
        books_keys  == KeysOf(b_df)
        common_keys == gstr_keys \cap books_keys
        pairs       == {PairEntry(a_df, b_df, k) : k \in common_keys}
        matches     == {p \in pairs : DOMAIN p.differences = {}}
        mismatches  == {p \in pairs : DOMAIN p.differences # {}}
        miss_books  == {MissingEntry(a_df, k) : k \in gstr_keys \ books_keys}
        miss_gstr   == {MissingEntry(b_df, k) : k \in books_keys \ gstr_keys}
    IN  [matches |-> matches, mismatches |-> mismatches,
         missing_in_books |-> miss_books, missing_in_gstr |-> miss_gstr,
         summary |->
            [total_gstr_records |-> Len(a_df),
             total_books_records |-> Len(b_df),
             match_count |-> Cardinality(matches),
             mismatch_count |-> Cardinality(mismatches),
             missing_in_books_count |-> Cardinality(miss_books),
             missing_in_gstr_count |-> Cardinality(miss_gstr)]]

\* The number of calls made on one pair of tables.
MaxCalls == 2

\* The whole of reconcile(): the key column is written to each table in turn,
\* and any exception is re-raised as "Error during reconciliation".  The
\* caller may call again on the tables as the call before left them.
Reconcile ==
    /\ booksPc \in {"loaded", "returned", "raised"}
    /\ calls < MaxCalls
    /\ calls' = calls + 1
    /\ previous' = [pc |-> booksPc, results |-> results]
    /\ IF KeyRaises(gstr_df)
       THEN /\ booksPc' = "raised"
            /\ UNCHANGED <<gstr_df, books_df, results>>
       ELSE IF KeyRaises(books_df)
       THEN /\ booksPc' = "raised"
            /\ gstr_df' = WithMatchKey(gstr_df)
            /\ UNCHANGED <<books_df, results>>
       ELSE /\ booksPc' = "returned"
            /\ gstr_df' = WithMatchKey(gstr_df)
            /\ books_df' = WithMatchKey(books_df)
            /\ results' = BooksResults(gstr_df, books_df)
    /\ UNCHANGED <<loadVars, ewayVars, mainVars, cmpVars, procVars>>

(***************************************************************************)
(* Input tables of the class-based reconcilers: rows drawn from a pool     *)
(* with a shared key (INV001), values inside and outside the tolerance, a  *)
(* second key, a case variant of the first key and an unparsable date.     *)
(***************************************************************************)
MaxRows == 2

Vals(invoice_value, taxable, igst) ==
    [c \in value_columns |->
        CASE c = "Invoice Value"  -> invoice_value
          [] c = "Taxable Value"  -> taxable
          [] c = "Integrated Tax" -> igst
          [] OTHER                -> Num(0)]

Row(inv, date, gstin, v) == [inv |-> inv, date |-> date, gstin |-> gstin, vals |-> v]

BooksPool ==
    { Row("INV001", "2024-04-01", "29ABCDE1234F1Z5", Vals(Num(118000), Num(100000), Num(18000))),
      Row("INV001", "2024-04-01", "29ABCDE1234F1Z5", Vals(Num(118500), Num(100500), Num(18000))),
      Row("INV001", "2024-04-01", "29ABCDE1234F1Z5", Vals(Num(124425), Num(105525), Num(18900))),
      Row("INV002", "2024-04-02", "29ABCDE1234F1Z5", Vals(Num(5000), NaN, Num(0))),
      Row("inv001 ", "2024-04-01", "29ABCDE1234F1Z5", Vals(Num(118000), Num(100000), Num(18000))),
      Row("INV003", NaT, "29ABCDE1234F1Z5", Vals(Num(1000), Num(1000), Num(0))) }

\* The non-empty tables of at most n rows over a pool.
Tables(pool, n) == UNION {[1 .. k -> pool] : k \in 1 .. n}

IdleLoad ==
    /\ load_variant = None /\ gstr_columns = {} /\ books_columns = {} /\ loadPc = "idle"
IdleCalls ==
    /\ calls = 0 /\ previous = <<>>
IdleBooks ==
    /\ gstr_df = <<>> /\ books_df = <<>> /\ results = <<>> /\ booksPc = "idle"
    /\ IdleLoad /\ IdleCalls
IdleEway ==
    /\ eway_variant = None /\ gstr1_data = <<>> /\ eway_data = <<>>
    /\ eway_results = <<>> /\ ewayPc = "idle"
IdleMain ==
    /\ df_2b = <<>> /\ df_csv = <<>> /\ csv_index = {} /\ rowPos = 0
    /\ matched = <<>> /\ mismatched = <<>> /\ missing_in_csv = <<>>
    /\ missing_in_json = <<>> /\ summary = <<>> /\ mainPc = "idle"
IdleReturns ==
    /\ gstr3b_data = <<>> /\ gstr1_sections = <<>> /\ detailed_comparison = <<>>
    /\ summary_data = <<>> /\ returnsPc = "idle"
IdleCmp ==
    /\ cmp_a = 0 /\ cmp_b = 0 /\ amount_threshold = 0 /\ percentage_threshold = 0
    /\ verdict = <<>> /\ cmpPc = "idle"
    /\ IdleReturns
IdlePre ==
    /\ pre_df = <<>> /\ pre_mapping = <<>> /\ from_date_arg = None
    /\ to_date_arg = None /\ pre_out = <<>> /\ prePc = "idle"
IdleProc ==
    /\ recon_type = None /\ mapping_arg = <<>> /\ source1_df = <<>>
    /\ source2_df = <<>> /\ result_df = <<>> /\ error = None /\ procPc = "idle"
    /\ IdlePre

InitBooks ==
    /\ gstr_df \in Tables(BooksPool, MaxRows)
    /\ books_df \in Tables(BooksPool, MaxRows)
    /\ results = <<>>
    /\ booksPc = "loaded"
    /\ IdleLoad /\ IdleCalls /\ IdleEway /\ IdleMain /\ IdleCmp /\ IdleProc

NextBooks == Reconcile

SpecBooks == InitBooks /\ [][NextBooks]_vars

(***************************************************************************)
(* C1  Partition completeness of the class-based matchers: when reconcile  *)
(* returns, 2*|matches| + 2*|mismatches| + |missing_in_books| +            *)
(* |missing_in_gstr| = |A| + |B|, also when several rows share a key.      *)
(***************************************************************************)
C1_PartitionComplete ==
    booksPc = "returned" =>
        2 * results.summary.match_count + 2 * results.summary.mismatch_count
          + results.summary.missing_in_books_count
          + results.summary.missing_in_gstr_count
        = Len(gstr_df) + Len(books_df)

(***************************************************************************)
(* reconcile_gstr1_eway / reconcile_gstr2_eway / reconcile_gstr1_einvoice. *)
(* A row has the key cells inv, date, gstin (NULL when empty), the numeric *)
(* cells vals and the text cells hsn and ewb.  The tables are renamed      *)
(* copies of the caller's tables, so the caller's tables are not written.  *)
(***************************************************************************)
EwayVariants == {"gstr1_eway", "gstr2_eway", "gstr1_einvoice"}

ParsableDates == {"2024-04-01", "2024-04-02"}

\* pd.to_datetime(..., errors='coerce')
ToDatetime(d) == IF d \in ParsableDates THEN d ELSE NaT

Renamed(df) ==
    [i \in Idx(df) |-> [df[i] EXCEPT !.date = ToDatetime(df[i].date)]]

\* df[key_columns].dropna().apply(tuple, axis=1)
HasNullKey(r) == r.inv = NULL \/ r.date = NaT \/ r.gstin = NULL
EwayKeys(df) == {MatchKey(df[i]) : i \in {j \in Idx(df) : ~HasNullKey(df[j])}}

\* (df["Invoice Number"] == key[0]) & (df["Invoice Date"] == key[1]) & ...
Mask(df, key) == {i \in Idx(df) : MatchKey(df[i]) = key}

\* np.isclose(a, b, rtol, atol): |a - b| <= atol + rtol * |b|, False on NaN.
\* pd.to_numeric(x, errors='coerce') or 0 leaves NaN as it is (NaN is truthy).
IsClose(a, b, rtol, atol) ==
    /\ ~IsNa(a) /\ ~IsNa(b)
    /\ Abs(a[1] - b[1]) * Hundredths <= atol * Hundredths + rtol * Abs(b[1])

NumericColumns(variant) ==
    IF variant = "gstr1_einvoice" THEN value_columns
    ELSE {"Invoice Value", "Taxable Value"}

\* str(x) if pd.notna(x) else ""
StrOrEmpty(x) == IF x = NULL THEN "" ELSE x

\* The fields of a pair that are recorded as discrepancies.
Discrepancies(variant, ra, rb) ==
    {c \in NumericColumns(variant) :
        ~IsClose(ra.vals[c], rb.vals[c], PERCENTAGE_THRESHOLD, AMOUNT_THRESHOLD)}
    \cup (IF variant # "gstr1_einvoice" /\ StrOrEmpty(ra.hsn) # StrOrEmpty(rb.hsn)
          THEN {"HSN Code"} ELSE {})
    \cup (IF variant # "gstr1_einvoice" /\ StrOrEmpty(ra.ewb) # StrOrEmpty(rb.ewb)
          THEN {"E-Way Bill Number"} ELSE {})

EwayPair(variant, a_df, b_df, key) ==
    LET i == MinOf(Mask(a_df, key))
        j == MinOf(Mask(b_df, key))
    IN  [a |-> i, b |-> j, row |-> a_df[i],
         discrepancies |-> Discrepancies(variant, a_df[i], b_df[j])]

EwayResults(variant, a_raw, b_raw) ==
    LET a_df   == Renamed(a_raw)
        b_df   == Renamed(b_raw)
        b_keys == EwayKeys(b_df)
        a_keys == EwayKeys(a_df)
        pairs  == {EwayPair(variant, a_df, b_df, k) : k \in a_keys \cap b_keys}
        miss_a == UNION {{[row |-> i, rec |-> b_df[i]] : i \in Mask(b_df, k)}
                         : k \in b_keys \ a_keys}
        miss_b == UNION {{[row |-> i, rec |-> a_df[i]] : i \in Mask(a_df, k)}
                         : k \in a_keys \ b_keys}
        matchedInv    == {p \in pairs : p.discrepancies = {}}
        mismatchedInv == {p \in pairs : p.discrepancies # {}}
        without == IF variant = "gstr1_einvoice" THEN {}
                   ELSE {[row |-> i, rec |-> b_df[i]] :
                           i \in {j \in Idx(b_df) : b_df[j].inv = NULL \/ b_df[j].inv = ""}}
    IN  [matched_invoices |-> matchedInv,
         mismatched_invoices |-> mismatchedInv,
         missing_in_gstr |-> miss_a,
         missing_in_other |-> miss_b,
         eway_without_invoice |-> without,
         summary |->
            [total_gstr_invoices |-> Len(a_df),
             total_other |-> Len(b_df),
             matched_count |-> Cardinality(matchedInv),
             mismatched_count |-> Cardinality(mismatchedInv),
             missing_in_gstr_count |-> Cardinality(miss_a),
             missing_in_other_count |-> Cardinality(miss_b),
             eway_without_invoice_count |-> Cardinality(without)]]

\* The function works on renamed copies, so a later call finds the caller's
\* tables as they were.
ReconcileEway ==
    /\ ewayPc \in {"loaded", "returned"}
    /\ calls < MaxCalls
    /\ calls' = calls + 1
    /\ previous' = [pc |-> ewayPc, results |-> eway_results]
    /\ eway_results' = EwayResults(eway_variant, gstr1_data, eway_data)
    /\ ewayPc' = "returned"
    /\ UNCHANGED <<eway_variant, gstr1_data, eway_data>>
    /\ UNCHANGED <<gstr_df, books_df, results, booksPc, loadVars>>
    /\ UNCHANGED <<mainVars, cmpVars, procVars>>

ERow(inv, date, gstin, v, hsn, ewb) ==
    [inv |-> inv, date |-> date, gstin |-> gstin, vals |-> v, hsn |-> hsn, ewb |-> ewb]

EwayPool ==
    { ERow("INV001", "2024-04-01", "29ABCDE1234F1Z5",
           Vals(Num(118000), Num(100000), Num(18000)), "8471", "EWB1"),
      ERow("INV001", "2024-04-01", "29ABCDE1234F1Z5",
           Vals(Num(236000), Num(200000), Num(36000)), "8471", "EWB1"),
      ERow("INV002", "2024-04-02", "29ABCDE1234F1Z5",
           Vals(Num(5000), NaN, Num(0)), NULL, "EWB2"),
      ERow(NULL, "2024-04-02", "29ABCDE1234F1Z5",
           Vals(Num(7000), Num(7000), Num(0)), "8471", "EWB3"),
      ERow("INV003", "31-31-2024", "29ABCDE1234F1Z5",
           Vals(Num(9000), Num(9000), Num(0)), "8471", NULL) }

InitEway ==
    /\ eway_variant \in EwayVariants
    /\ gstr1_data \in Tables(EwayPool, MaxRows)
    /\ eway_data \in Tables(EwayPool, MaxRows)
    /\ eway_results = <<>>
    /\ ewayPc = "loaded"
    /\ IdleBooks /\ IdleMain /\ IdleCmp /\ IdleProc

NextEway == ReconcileEway

SpecEway == InitEway /\ [][NextEway]_vars

(***************************************************************************)
(* C2  In the e-way-bill and e-invoice variants every row of both input    *)
(* tables ends in exactly one of matched_invoices, mismatched_invoices,    *)
(* missing_in_<A>, missing_in_<B>: no row is dropped from all of them and  *)
(* none is listed in more than one.                                        *)
(***************************************************************************)
\* The number of the four result lists that hold row i of the gstr table
\* (side "a") or of the e-way / e-invoice table (side "b").
BucketsHolding(side, i) ==
    LET r == eway_results
        paired(S) == IF side = "a" THEN \E p \in S : p.a = i
                                   ELSE \E p \in S : p.b = i
        orphan == IF side = "a" THEN \E m \in r.missing_in_other : m.row = i
                                ELSE \E m \in r.missing_in_gstr : m.row = i
    IN  (IF paired(r.matched_invoices) THEN 1 ELSE 0)
      + (IF paired(r.mismatched_invoices) THEN 1 ELSE 0)
      + (IF orphan THEN 1 ELSE 0)

C2_NoRowInTwoBuckets ==
    ewayPc = "returned" =>
        /\ \A i \in Idx(gstr1_data) : BucketsHolding("a", i) <= 1
        /\ \A i \in Idx(eway_data) : BucketsHolding("b", i) <= 1

C2_EveryRowInOneBucket ==
    ewayPc = "returned" =>
        /\ \A i \in Idx(gstr1_data) : BucketsHolding("a", i) = 1
        /\ \A i \in Idx(eway_data) : BucketsHolding("b", i) = 1

(***************************************************************************)
(* main.py: GSTR-2B (df_2b, source A) against the purchase register        *)
(* (df_csv, source B).  An invoice number is a sequence of characters.     *)
(* df_csv keeps the row labels 1..n of the file; csv_index is the set of   *)
(* labels still in df_csv.                                                 *)
(***************************************************************************)
LowerLetters == <<"a","b","c","d","e","f","g","h","i","j","k","l","m",
                  "n","o","p","q","r","s","t","u","v","w","x","y","z">>
UpperLetters == <<"A","B","C","D","E","F","G","H","I","J","K","L","M",
                  "N","O","P","Q","R","S","T","U","V","W","X","Y","Z">>
Digits == {"0","1","2","3","4","5","6","7","8","9"}
Range(f) == {f[i] : i \in DOMAIN f}

UpperChar(c) ==
    IF c \in Range(LowerLetters)
    THEN UpperLetters[CHOOSE k \in DOMAIN LowerLetters : LowerLetters[k] = c]
    ELSE c

\* str.upper()
Upper(str) == [i \in Idx(str) |-> UpperChar(str[i])]

\* str.strip()
RECURSIVE LStrip(_)
LStrip(str) == IF str # <<>> /\ Head(str) = " " THEN LStrip(Tail(str)) ELSE str
RECURSIVE RStrip(_)
RStrip(str) ==
    IF str # <<>> /\ str[Len(str)] = " "
    THEN RStrip(SubSeq(str, 1, Len(str) - 1)) ELSE str
Strip(str) == RStrip(LStrip(str))

IsAlnum(c) == c \in Range(UpperLetters) \cup Digits
IsDigit(c) == c \in Digits
StartsWith(str, prefix) ==
    Len(str) >= Len(prefix) /\ SubSeq(str, 1, Len(prefix)) = prefix

prefixes == << <<"I","N","V">>, <<"I","N","V","O","I","C","E">>,
               <<"B","I","L","L">>, <<"S","I">>, <<"T","A","X">> >>

\* for prefix in prefixes: if clean_inv.startswith(prefix): cut it
RECURSIVE StripPrefixes(_, _)
StripPrefixes(str, k) ==
    IF k > Len(prefixes) THEN str
    ELSE IF StartsWith(str, prefixes[k])
         THEN StripPrefixes(SubSeq(str, Len(prefixes[k]) + 1, Len(str)), k + 1)
         ELSE StripPrefixes(str, k + 1)

\* normalize_invoice_num: (clean_inv, num_only)
normalize_invoice_num(inv_num) ==
    LET clean_inv == StripPrefixes(SelectSeq(Upper(inv_num), IsAlnum), 1)
    IN  [norm_inv_num |-> clean_inv, num_only |-> SelectSeq(clean_inv, IsDigit)]

\* The literals of the loop, in paise.
FuzzyAmount == 1000            \* diff < 10
FuzzyPercent == 1              \* percent_diff < 1
MatchedAmount == 10000         \* value_diff < 100
MatchedPercent == 10           \* value_percent_diff < 10

\* percent_diff = diff / a * 100 if a > 0 else 100;  percent_diff < limit
PercentBelow(diff, a, limit) ==
    IF a > 0 THEN diff * 100 < limit * a ELSE 100 < limit

\* Strategies 1-3 (main.py:312-321): the labels of df_csv selected for row.
ExactMatch(row, idx) ==
    {j \in idx : df_csv[j].gstin = row.gstin /\ df_csv[j].inv_num = row.inv_num}
NormMatch(row, idx) ==
    {j \in idx : /\ df_csv[j].gstin = row.gstin
                 /\ df_csv[j].norm_inv_num = row.norm_inv_num}
NumOnlyMatch(row, idx) ==
    IF row.num_only # <<>>
    THEN {j \in idx : df_csv[j].gstin = row.gstin /\ df_csv[j].num_only = row.num_only}
    ELSE {}

\* An amount strategy that would keep the last close row instead of the first.
FuzzyMatchLast(row, idx) ==
    LET close == {j \in idx :
                    /\ df_csv[j].gstin = row.gstin
                    /\ LET diff == Abs(df_csv[j].taxable_value - row.taxable_value)
                       IN  \/ PercentBelow(diff, row.taxable_value, FuzzyPercent)
                           \/ diff < FuzzyAmount}
    IN  IF close = {} THEN {} ELSE {CHOOSE j \in close : \A k \in close : k <= j}

\* An amount strategy that would accept any row of the GSTIN within 50% of
\* the A value.
FuzzyMatchWide(row, idx) ==
    LET close == {j \in idx :
                    /\ df_csv[j].gstin = row.gstin
                    /\ LET diff == Abs(df_csv[j].taxable_value - row.taxable_value)
                       IN  PercentBelow(diff, row.taxable_value, 50)}
    IN  IF close = {} THEN {} ELSE {MinOf(close)}

\* Strategy 4 (main.py:323-336): the first row of the same GSTIN whose amount
\* is close, as a set of at most one label.
FuzzyMatch(row, idx) ==
    LET close == {j \in idx :
                    /\ df_csv[j].gstin = row.gstin
                    /\ LET diff == Abs(df_csv[j].taxable_value - row.taxable_value)
                       IN  \/ PercentBelow(diff, row.taxable_value, FuzzyPercent)
                           \/ diff < FuzzyAmount}
    IN  IF close = {} THEN {} ELSE {MinOf(close)}

\* A cascade that would try the amount similarity before the numeric-only key.
CascadeAmountFirst(row, idx) ==
    IF ExactMatch(row, idx) # {}
    THEN [match |-> ExactMatch(row, idx), strategy |-> "exact"]
    ELSE IF NormMatch(row, idx) # {}
    THEN [match |-> NormMatch(row, idx), strategy |-> "normalized"]
    ELSE IF FuzzyMatch(row, idx) # {}
    THEN [match |-> FuzzyMatch(row, idx), strategy |-> "fuzzy"]
    ELSE IF NumOnlyMatch(row, idx) # {}
    THEN [match |-> NumOnlyMatch(row, idx), strategy |-> "numeric"]
    ELSE [match |-> {}, strategy |-> "none"]

\* The cascade: the selected labels and the strategy that selected them.
Cascade(row, idx) ==
    IF ExactMatch(row, idx) # {}
    THEN [match |-> ExactMatch(row, idx), strategy |-> "exact"]
    ELSE IF NormMatch(row, idx) # {}
    THEN [match |-> NormMatch(row, idx), strategy |-> "normalized"]
    ELSE IF NumOnlyMatch(row, idx) # {}
    THEN [match |-> NumOnlyMatch(row, idx), strategy |-> "numeric"]
    ELSE IF FuzzyMatch(row, idx) # {}
    THEN [match |-> FuzzyMatch(row, idx), strategy |-> "fuzzy"]
    ELSE [match |-> {}, strategy |-> "none"]

\* df_csv.drop(match.index): every selected label leaves df_csv.
DropNothing(idx, match) == idx

Drop(idx, match) == idx \ match

\* One iteration of "for _, row in df_2b.iterrows()" (main.py:308-372).
\* The fields a, b and ghost_strategy of an entry are not in the program's
\* dictionaries: they record the rows and the strategy of the pairing.
LoopStep ==
    /\ mainPc = "loop"
    /\ rowPos < Len(df_2b)
    /\ LET row       == df_2b[rowPos + 1]
           found     == Cascade(row, csv_index)
           match     == found.match
       IN  /\ rowPos' = rowPos + 1
           /\ IF match = {}
              THEN /\ missing_in_csv' = Append(missing_in_csv, [a |-> rowPos + 1, row |-> row])
                   /\ UNCHANGED <<matched, mismatched, csv_index>>
              ELSE LET b           == MinOf(match)
                       match_row   == df_csv[b]
                       value_diff  == Abs(match_row.taxable_value - row.taxable_value)
                       value_matched ==
                           \/ PercentBelow(value_diff, row.taxable_value, MatchedPercent)
                           \/ value_diff < MatchedAmount
                       rate_matched ==
                           \/ match_row.rate = row.rate
                           \/ row.rate = 0
                           \/ match_row.rate = 0
                   IN  /\ IF value_matched /\ rate_matched
                          THEN /\ matched' = Append(matched,
                                     [a |-> rowPos + 1, b |-> b, row |-> row,
                                      csv_inv_num |-> match_row.inv_num,
                                      csv_taxable_value |-> match_row.taxable_value,
                                      exact_match |-> (row.inv_num = match_row.inv_num),
                                      ghost_strategy |-> found.strategy])
                               /\ UNCHANGED mismatched
                          ELSE /\ mismatched' = Append(mismatched,
                                     [a |-> rowPos + 1, b |-> b, row |-> row,
                                      csv_inv_num |-> match_row.inv_num,
                                      csv_taxable_value |-> match_row.taxable_value,
                                      csv_rate |-> match_row.rate,
                                      diff_value |-> match_row.taxable_value - row.taxable_value,
                                      ghost_strategy |-> found.strategy])
                               /\ UNCHANGED matched
                       /\ csv_index' = Drop(csv_index, match)
                       /\ UNCHANGED missing_in_csv
    /\ UNCHANGED <<df_2b, df_csv, missing_in_json, summary, mainPc>>
    /\ UNCHANGED <<booksVars, ewayVars, cmpVars, procVars>>

\* The labels of a set in increasing order.
RECURSIVE Sorted(_)
Sorted(S) == IF S = {} THEN <<>> ELSE <<MinOf(S)>> \o Sorted(S \ {MinOf(S)})

\* round(count / total * 100, 2) if total > 0 else 0, in hundredths of a
\* percent.
MatchPercentage(count, total) ==
    IF total > 0 THEN (2 * count * 100 * Hundredths + total) \div (2 * total) ELSE 0

\* main.py:374-388: what is left of df_csv goes to missing_in_json, then the
\* summary is computed.
FinishLoop ==
    /\ mainPc = "loop"
    /\ rowPos = Len(df_2b)
    /\ missing_in_json' = [k \in 1 .. Cardinality(csv_index) |->
                              [b |-> Sorted(csv_index)[k], row |-> df_csv[Sorted(csv_index)[k]]]]
    /\ summary' = [total_invoices |-> Len(df_2b) + Cardinality(csv_index),
                   matched_count |-> Len(matched),
                   mismatched_count |-> Len(mismatched),
                   missing_in_csv_count |-> Len(missing_in_csv),
                   missing_in_json_count |-> Cardinality(csv_index),
                   match_percentage |->
                      MatchPercentage(Len(matched), Len(df_2b) + Cardinality(csv_index))]
    /\ mainPc' = "done"
    /\ UNCHANGED <<df_2b, df_csv, csv_index, rowPos, matched, mismatched, missing_in_csv>>
    /\ UNCHANGED <<booksVars, ewayVars, cmpVars, procVars>>

\* A preparation that would normalize the identifiers as they were read,
\* without uppercasing them first.
StandardizeRawKeys(raw) ==
    LET inv   == Strip(Upper(raw.inv_num))
        clean == StripPrefixes(SelectSeq(raw.inv_num, IsAlnum), 1)
    IN  [gstin |-> raw.gstin, inv_num |-> inv,
         taxable_value |-> raw.taxable_value, rate |-> raw.rate,
         norm_inv_num |-> clean,
         num_only |-> SelectSeq(clean, IsDigit)]

\* main.py:42, 80, 254-255, 298-299: identifiers are trimmed and uppercased
\* on both sides, then the two normalized columns are added.
Standardize(raw) ==
    LET inv == Strip(Upper(raw.inv_num))
    IN  [gstin |-> raw.gstin, inv_num |-> inv,
         taxable_value |-> raw.taxable_value, rate |-> raw.rate,
         norm_inv_num |-> normalize_invoice_num(inv).norm_inv_num,
         num_only |-> normalize_invoice_num(inv).num_only]

StandardizeTable(t) == [i \in Idx(t) |-> Standardize(t[i])]

Inv(gstin, inv_num, taxable_value, rate) ==
    [gstin |-> gstin, inv_num |-> inv_num, taxable_value |-> taxable_value, rate |-> rate]

\* GSTR-2B invoices (only records with a taxable value > 0 are loaded).
Pool2b ==
    { Inv("29AAA", <<"I","N","V","0","0","1">>, 100000, 18),
      Inv("29AAA", <<"S","I","-","2","0","2","4","-","0","0","0","4","5">>, 50000, 18),
      Inv("29AAA", <<"X","-","9">>, 100400, 18),
      Inv("29AAA", <<"A","B","C">>, 70000, 18),
      Inv("27BBB", <<"I","N","V","0","0","1">>, 100000, 18) }

\* Purchase-register rows.
PoolCsv ==
    { Inv("29AAA", <<"I","N","V","0","0","1">>, 100000, 18),
      Inv("29AAA", <<"i","n","v","-","0","0","1"," ">>, 100000, 12),
      Inv("29AAA", <<"I","N","V","0","0","0","4","5">>, 50000, 18),
      Inv("29AAA", <<"9","A">>, 300000, 0),
      Inv("29AAA", <<"a","b","c">>, 70000, 18),
      Inv("24CCC", <<"Z","1">>, 100, 5) }

InitMain ==
    /\ df_2b \in {StandardizeTable(t) : t \in Tables(Pool2b, MaxRows)}
    /\ df_csv \in {StandardizeTable(t) : t \in Tables(PoolCsv, MaxRows)}
    /\ csv_index = Idx(df_csv)
    /\ rowPos = 0
    /\ matched = <<>> /\ mismatched = <<>>
    /\ missing_in_csv = <<>> /\ missing_in_json = <<>>
    /\ summary = <<>>
    /\ mainPc = "loop"
    /\ IdleBooks /\ IdleEway /\ IdleCmp /\ IdleProc

NextMain == LoopStep \/ FinishLoop

SpecMain == InitMain /\ [][NextMain]_vars

(***************************************************************************)
(* C3  In the fallback-cascade matcher no purchase-register (B) record is  *)
(* silently dropped: after the loop every B record has been paired with    *)
(* exactly one A record or appears in missing_in_json; and every A record  *)
(* is in exactly one of matched, mismatched, missing_in_csv.               *)
(***************************************************************************)
\* The number of entries of a list that satisfy a test.
CountIn(list, Test(_)) == Cardinality({k \in Idx(list) : Test(list[k])})

PairingsOfB(j) ==
    CountIn(matched, LAMBDA e : e.b = j) + CountIn(mismatched, LAMBDA e : e.b = j)

C3_EveryAInOneBucket ==
    mainPc = "done" =>
        \A i \in Idx(df_2b) :
            CountIn(matched, LAMBDA e : e.a = i)
          + CountIn(mismatched, LAMBDA e : e.a = i)
          + CountIn(missing_in_csv, LAMBDA e : e.a = i) = 1

C3_NoBDropped ==
    mainPc = "done" =>
        \A j \in Idx(df_csv) :
            PairingsOfB(j) + CountIn(missing_in_json, LAMBDA e : e.b = j) = 1

(***************************************************************************)
(* The two matchers that pair records one to one, side by side.            *)
(***************************************************************************)
InitPairing == InitBooks \/ InitMain
NextPairing == NextBooks \/ NextMain
SpecPairing == InitPairing /\ [][NextPairing]_vars

(***************************************************************************)
(* C4  At-most-one-match: in one run no source-B record is paired with     *)
(* more than one source-A record, even when several B records share a key; *)
(* a B record consumed by a pairing (through any strategy) is no longer    *)
(* among the candidates for a later A record.                              *)
(***************************************************************************)
C4_AtMostOneMatch ==
    /\ mainPc \in {"loop", "done"} =>
          /\ \A j \in Idx(df_csv) : PairingsOfB(j) <= 1
          /\ \A j \in Idx(df_csv) : PairingsOfB(j) = 1 => j \notin csv_index
    /\ booksPc = "returned" =>
          \A j \in Idx(books_df) :
              Cardinality({p \in results.matches \cup results.mismatches : p.b = j}) <= 1

\* A B record taken through the amount-similarity strategy, and a later A
\* record with that B record's own invoice number left without a partner.
C4_Witness ==
    /\ mainPc = "done"
    /\ \E k \in Idx(matched) : \E m \in Idx(missing_in_csv) :
          /\ matched[k].ghost_strategy = "fuzzy"
          /\ missing_in_csv[m].a > matched[k].a
          /\ missing_in_csv[m].row.gstin = matched[k].row.gstin
          /\ missing_in_csv[m].row.inv_num = matched[k].csv_inv_num

(***************************************************************************)
(* The columns generic_reconciliation computes for one row of the outer    *)
(* join, and the Status apply_thresholds gives the row.  A percentage is   *)
(* kept as the pair num/den of its quotient.                               *)
(***************************************************************************)
\* data_processor.py:186-201.  s1, s2 are the cells after the join: NaN where
\* the key is absent from that source (or the cell was empty).
JoinedRow(key, s1, s2) ==
    LET v1 == ZeroIfNa(s1)                      \* fillna(0)
        v2 == ZeroIfNa(s2)
    IN  [key |-> key, Source1_Value |-> v1, Source2_Value |-> v2,
         Difference |-> v1 - v2,
         Percent_Difference |->
            IF v1 # 0 \/ v2 # 0
            THEN [num |-> Abs(v1 - v2) * 100, den |-> Max2(Abs(v1), Abs(v2))]
            ELSE [num |-> 0, den |-> 1]]

\* data_processor.py:313-331 on one row.
Status(row, amt, pct) ==
    LET abs_diff_mask     == Abs(row.Difference) > amt
        percent_diff_mask == row.Percent_Difference.num * Hundredths
                               > pct * 100 * row.Percent_Difference.den
        source1_null      == row.Source1_Value = 0     \* isna() | (== 0)
        source2_null      == row.Source2_Value = 0
    IN  IF source1_null /\ ~source2_null THEN "Only in Source 2"
        ELSE IF source2_null /\ ~source1_null THEN "Only in Source 1"
        ELSE IF abs_diff_mask /\ percent_diff_mask THEN "Mismatched"
        ELSE "Matched"

(***************************************************************************)
(* The total-level variants (reconcile_gstr3b_books, reconcile_itc_...,    *)
(* reconcile_turnover): the test that records a difference of two totals.  *)
(***************************************************************************)
\* diff_percent = diff / b * 100 if b != 0 else inf;
\* abs(diff) > AMOUNT_THRESHOLD and abs(diff_percent) > PERCENTAGE_THRESHOLD
TotalDiscrepancy(a, b) ==
    /\ Abs(a - b) > AMOUNT_THRESHOLD
    /\ \/ b = 0
       \/ Abs(a - b) * 100 * Hundredths > PERCENTAGE_THRESHOLD * Abs(b)

(***************************************************************************)
(* The tolerance tests applied to one pair of values a (source A) and b    *)
(* (source B) under thresholds drawn from the values a caller may pass.    *)
(***************************************************************************)
CmpValues == {0, 50, 9900, 10100, 18000, 18900, 50000, 100000, 100500, 105525}
AmountThresholds == {AMOUNT_THRESHOLD, 10 * Rupee}
PercentageThresholds == {PERCENTAGE_THRESHOLD, 5}

InitCmp ==
    /\ cmp_a \in CmpValues
    /\ cmp_b \in CmpValues
    /\ amount_threshold \in AmountThresholds
    /\ percentage_threshold \in PercentageThresholds
    /\ verdict = <<>>
    /\ cmpPc = "input"
    /\ IdleReturns /\ IdleBooks /\ IdleEway /\ IdleMain /\ IdleProc

\* A percentage the code computes is kept as <<numerator, denominator>>
\* (denominator 0: np.inf); <<>> when the code computes none.
Ratio(num, den) == <<num, den>>

\* gstr1_books.py:155-157: percent_diff, computed once abs_diff exceeds the
\* amount threshold.
PercentDiff(a, b, amt) ==
    IF Abs(a - b) > amt
    THEN IF Max2(Abs(a), Abs(b)) > 0
         THEN Ratio(Abs(a - b) * 100, Max3(Abs(a), Abs(b), Rupee))
         ELSE Ratio(0, 1)
    ELSE <<>>

\* diff_percent = (diff / b * 100) if b != 0 else np.inf
DiffPercent(a, b) == IF b # 0 THEN Ratio((a - b) * 100, b) ELSE Ratio(1, 0)

Decide(by, flagged, percent) ==
    /\ cmpPc = "input"
    /\ cmpPc' = "done"
    /\ verdict' = [by |-> by, flagged |-> flagged, percent |-> percent]
    /\ UNCHANGED <<cmp_a, cmp_b, amount_threshold, percentage_threshold>>
    /\ UNCHANGED <<returnsVars, booksVars, ewayVars, mainVars, procVars>>

\* gstr1_books.py:150-166 for one value column.
ApplyFieldDiffer ==
    Decide("differ", FieldDiscrepant(cmp_a, cmp_b, amount_threshold, percentage_threshold),
           PercentDiff(cmp_a, cmp_b, amount_threshold))

\* apply_thresholds on the joined row of a key present in both sources.
ApplyThresholdsRow ==
    Decide("apply_thresholds",
           Status(JoinedRow("k", Num(cmp_a), Num(cmp_b)),
                  amount_threshold, percentage_threshold) = "Mismatched",
           Ratio(JoinedRow("k", Num(cmp_a), Num(cmp_b)).Percent_Difference.num,
                 JoinedRow("k", Num(cmp_a), Num(cmp_b)).Percent_Difference.den))

\* gstr1_eway.py:104-107 / gstr1_einvoice.py:103-106 for one value column.
ApplyIsClose ==
    Decide("isclose",
           ~IsClose(Num(cmp_a), Num(cmp_b), PERCENTAGE_THRESHOLD, AMOUNT_THRESHOLD),
           IF IsClose(Num(cmp_a), Num(cmp_b), PERCENTAGE_THRESHOLD, AMOUNT_THRESHOLD)
           THEN <<>> ELSE DiffPercent(cmp_a, cmp_b))

\* gstr3b_books.py:54-68 for one pair of totals.
ApplyTotalLevel ==
    Decide("total", TotalDiscrepancy(cmp_a, cmp_b), DiffPercent(cmp_a, cmp_b))

NextCmp == ApplyFieldDiffer \/ ApplyThresholdsRow \/ ApplyIsClose \/ ApplyTotalLevel

SpecCmp == InitCmp /\ [][NextCmp]_vars

\* The documented rule: abs_diff > amount_threshold AND
\* abs_diff / max(|a|, |b|, 1) * 100 > percentage_threshold * 100.
AndRule(a, b, amt, pct) ==
    /\ Abs(a - b) > amt
    /\ Abs(a - b) * 100 * Hundredths > pct * 100 * Max3(Abs(a), Abs(b), Rupee)

(***************************************************************************)
(* C5  Threshold AND-semantics in the record-level Differ and in           *)
(* apply_thresholds: a value field (or result row) is flagged discrepant / *)
(* Mismatched if and only if abs_diff > amount_threshold AND percent_diff  *)
(* > percentage_threshold*100.  1000 vs 1005 is matched under (10, 0.01)   *)
(* and under (1, 0.01); 1000 vs 1055.25 is mismatched.                     *)
(***************************************************************************)
C5_Examples ==
    /\ cmp_a = 100000 /\ cmp_b = 100500 /\ percentage_threshold = PERCENTAGE_THRESHOLD
          => ~verdict.flagged
    /\ cmp_a = 100000 /\ cmp_b = 105525 /\ percentage_threshold = PERCENTAGE_THRESHOLD
          => verdict.flagged

C5_DifferAndSemantics ==
    (cmpPc = "done" /\ verdict.by = "differ") =>
        /\ verdict.flagged <=> AndRule(cmp_a, cmp_b, amount_threshold, percentage_threshold)
        /\ C5_Examples

C5_AndSemantics ==
    (cmpPc = "done" /\ verdict.by \in {"differ", "apply_thresholds"}) =>
        /\ verdict.flagged <=> AndRule(cmp_a, cmp_b, amount_threshold, percentage_threshold)
        /\ C5_Examples

(***************************************************************************)
(* C6  In the e-way-bill and e-invoice variants a numeric field of a pair  *)
(* is flagged exactly when the AND rule flags it (under AMOUNT_THRESHOLD   *)
(* and PERCENTAGE_THRESHOLD), and the verdict does not depend on which     *)
(* side is A and which is B.                                               *)
(***************************************************************************)
C6_IsCloseIsAndRule ==
    (cmpPc = "done" /\ verdict.by = "isclose") =>
        /\ verdict.flagged
              <=> AndRule(cmp_a, cmp_b, AMOUNT_THRESHOLD, PERCENTAGE_THRESHOLD)
        /\ verdict.flagged
              <=> ~IsClose(Num(cmp_b), Num(cmp_a), PERCENTAGE_THRESHOLD, AMOUNT_THRESHOLD)

\* The two halves of C6, each refuted on its own.
C6_SameVerdictAsAndRule ==
    (cmpPc = "done" /\ verdict.by = "isclose") =>
        (verdict.flagged <=> AndRule(cmp_a, cmp_b, AMOUNT_THRESHOLD, PERCENTAGE_THRESHOLD))

C6_Symmetric ==
    (cmpPc = "done" /\ verdict.by = "isclose") =>
        (verdict.flagged
            <=> ~IsClose(Num(cmp_b), Num(cmp_a), PERCENTAGE_THRESHOLD, AMOUNT_THRESHOLD))

(***************************************************************************)
(* C7  In the total-level variants a difference between two totals is      *)
(* recorded in discrepancies only when it exceeds both thresholds, the     *)
(* relative one being 0.01 = 1%: a difference below 1% of the compared     *)
(* total is never recorded under the default thresholds.                   *)
(***************************************************************************)
C7_RecordedOnlyAboveOnePercent ==
    (cmpPc = "done" /\ verdict.by = "total" /\ verdict.flagged) =>
        /\ Abs(cmp_a - cmp_b) > AMOUNT_THRESHOLD
        /\ ~(Abs(cmp_a - cmp_b) * Hundredths < PERCENTAGE_THRESHOLD * Abs(cmp_b))

(***************************************************************************)
(* utils/data_processor.py: process_reconciliation and the functions it    *)
(* calls.                                                                  *)
(*                                                                         *)
(* A dict is a function from its keys; a table is a sequence of rows, a    *)
(* row a function from column names to cells.  The predefined mappings of  *)
(* config.py are kept with the keys they have: a field name of one source  *)
(* mapped to the name (or list of names) it has in the other.              *)
(***************************************************************************)
EmptyDict == <<>>

\* d.get(k, default)
Get(d, k, default) == IF k \in DOMAIN d THEN d[k] ELSE default

GSTR1_BOOKS_MAPPING ==
    "GSTIN/UIN of Recipient" :> <<"Customer GSTIN">>
    @@ "Receiver Name" :> <<"Customer Name">>
    @@ "Invoice Number" :> <<"Invoice No.">>
    @@ "Invoice Date" :> <<"Invoice Date">>
    @@ "Invoice Value" :> <<"Invoice Value">>
    @@ "Place of Supply" :> <<"State/Code">>
    @@ "Reverse Charge" :> <<"RCM Applicable">>
    @@ "Applicable % of Tax Rate" :> <<"Tax Rate">>
    @@ "Taxable Value" :> <<"Taxable Value">>
    @@ "Integrated Tax" :> <<"IGST">>
    @@ "Central Tax" :> <<"CGST">>
    @@ "State/UT Tax" :> <<"SGST/UTGST">>
    @@ "Cess" :> <<"Cess">>
    @@ "E-Commerce GSTIN" :> <<"E-Commerce GSTIN">>
    @@ "Rate" :> <<"Rate">>
    @@ "Supply Type" :> <<"Supply Type">>

GSTR2_BOOKS_MAPPING ==
    "GSTIN of Supplier" :> <<"Vendor GSTIN">>
    @@ "Trade/Legal Name" :> <<"Vendor Name">>
    @@ "Invoice Number" :> <<"Purchase Invoice No.">>
    @@ "Invoice Date" :> <<"Invoice Date">>
    @@ "Invoice Value" :> <<"Invoice Value">>
    @@ "Place of Supply" :> <<"State/Code">>
    @@ "Reverse Charge" :> <<"RCM Applicable">>
    @@ "Invoice Type" :> <<"Invoice Type">>
    @@ "Rate" :> <<"Rate">>
    @@ "Taxable Value" :> <<"Taxable Value">>
    @@ "Integrated Tax" :> <<"IGST">>
    @@ "Central Tax" :> <<"CGST">>
    @@ "State/UT Tax" :> <<"SGST/UTGST">>
    @@ "Cess" :> <<"Cess">>
    @@ "ITC Availability" :> <<"ITC Eligible">>
    @@ "Reason" :> <<"Ineligibility Reason">>

GSTR3B_GSTR1_MAPPING ==
    "Table 3.1(a)" :> <<"Table 4", "Table 5", "Table 6", "Table 7", "Table 8", "Table 9", "Table 10", "Table 11", "Table 12">>
    @@ "Table 3.1(b)" :> <<"Table 6: Zero rated supplies">>
    @@ "Table 3.1(c)" :> <<"Nil rated, exempted supplies">>
    @@ "Table 3.1(d)" :> <<>>
    @@ "Table 3.1(e)" :> <<>>

GSTR3B_BOOKS_MAPPING ==
    "Table 3.1" :> <<"Output Tax Ledger">>
    @@ "Table 3.1(a)" :> <<"Regular Supplies Output Tax">>
    @@ "Table 3.1(b)" :> <<"Zero-Rated Supplies">>
    @@ "Table 3.1(c)" :> <<"Exempt Supplies">>
    @@ "Table 3.1(d)" :> <<"RCM Output Tax">>
    @@ "Table 3.1(e)" :> <<"Non-GST Supplies">>
    @@ "Integrated Tax Amount" :> <<"IGST Output">>
    @@ "Central Tax Amount" :> <<"CGST Output">>
    @@ "State/UT Tax Amount" :> <<"SGST/UTGST Output">>
    @@ "Cess Amount" :> <<"Cess Output">>

ITC_GSTR3B_GSTR2B_MAPPING ==
    "Table 4(A)(1)" :> <<>>
    @@ "Table 4(A)(2)" :> <<>>
    @@ "Table 4(A)(3)" :> <<"ITC Available - Reverse Charge">>
    @@ "Table 4(A)(4)" :> <<"ITC From ISD">>
    @@ "Table 4(A)(5)" :> <<"ITC Available">>
    @@ "Table 4(B)(1)" :> <<>>
    @@ "Table 4(B)(2)" :> <<>>
    @@ "Table 4(C)" :> <<"Net ITC Available">>
    @@ "Table 4(D)" :> <<"Ineligible ITC">>

ITC_BOOKS_ELIGIBILITY_MAPPING ==
    "Total ITC" :> <<"Gross ITC">>
    @@ "Eligible ITC" :> <<"Eligible ITC as per Sec 16">>
    @@ "Ineligible ITC" :> <<"Ineligible ITC as per Sec 17">>
    @@ "ITC Reversed" :> <<"ITC Reversal">>
    @@ "Net ITC" :> <<"Net Eligible ITC">>
    @@ "ITC on Capital Goods" :> <<"ITC - Capital Goods">>
    @@ "ITC on Input Services" :> <<"ITC - Input Services">>
    @@ "ITC on Inputs" :> <<"ITC - Inputs">>

GSTR1_EWAY_MAPPING ==
    "Invoice Number" :> <<"Document No.">>
    @@ "Invoice Date" :> <<"Document Date">>
    @@ "Invoice Value" :> <<"Total Invoice Value">>
    @@ "GSTIN/UIN of Recipient" :> <<"Recipient GSTIN">>
    @@ "Receiver Name" :> <<"Recipient Name">>
    @@ "Place of Supply" :> <<"Place of Delivery">>
    @@ "HSN Code" :> <<"HSN Code">>
    @@ "Taxable Value" :> <<"Taxable Amount">>
    @@ "Tax Rate" :> <<"Tax Rate">>
    @@ "E-Way Bill Number" :> <<"E-Way Bill No.">>
    @@ "E-Way Bill Date" :> <<"E-Way Bill Date">>

GSTR2_EWAY_MAPPING ==
    "GSTIN of Supplier" :> <<"Supplier GSTIN">>
    @@ "Trade/Legal Name" :> <<"Supplier Name">>
    @@ "Invoice Number" :> <<"Document No.">>
    @@ "Invoice Date" :> <<"Document Date">>
    @@ "Invoice Value" :> <<"Total Invoice Value">>
    @@ "Place of Supply" :> <<"Place of Delivery">>
    @@ "HSN Code" :> <<"HSN Code">>
    @@ "Taxable Value" :> <<"Taxable Amount">>
    @@ "Tax Rate" :> <<"Tax Rate">>
    @@ "E-Way Bill Number" :> <<"E-Way Bill No.">>
    @@ "E-Way Bill Date" :> <<"E-Way Bill Date">>

GSTR1_EINVOICE_MAPPING ==
    "Invoice Number" :> <<"Document No.">>
    @@ "Invoice Date" :> <<"Document Date">>
    @@ "Invoice Value" :> <<"Total Invoice Value">>
    @@ "GSTIN/UIN of Recipient" :> <<"Recipient GSTIN">>
    @@ "Receiver Name" :> <<"Recipient Legal Name">>
    @@ "Place of Supply" :> <<"Place of Supply">>
    @@ "HSN Code" :> <<"HSN Code">>
    @@ "Taxable Value" :> <<"Taxable Value">>
    @@ "Tax Rate" :> <<"Rate">>
    @@ "Integrated Tax" :> <<"IGST Amount">>
    @@ "Central Tax" :> <<"CGST Amount">>
    @@ "State/UT Tax" :> <<"SGST/UTGST Amount">>
    @@ "IRN Number" :> <<"IRN">>
    @@ "IRN Date" :> <<"IRN Date">>
    @@ "Acknowledgement Number" :> <<"Ack No.">>
    @@ "Acknowledgement Date" :> <<"Ack Date">>

TURNOVER_MAPPING ==
    "Total Sales" :> <<"Annual Aggregate Turnover", "Revenue from Operations">>
    @@ "Taxable Turnover" :> <<"Taxable Turnover", "Taxable Revenue">>
    @@ "Exempt Turnover" :> <<"Exempt Turnover", "Exempt Revenue">>
    @@ "Export Turnover" :> <<"Zero-rated Turnover", "Export Revenue">>
    @@ "Non-GST Turnover" :> <<"Non-GST Turnover", "Non-GST Revenue">>
    @@ "Sales Returns" :> <<"Credit Notes", "Sales Returns/Adjustments">>
    @@ "Advances Received" :> <<"Advances for which GST is paid", "Advances from Customers">>
    @@ "Other Income" :> <<None, "Other Income">>

PredefinedTags ==
    {"gstr1_books", "gstr2_books", "gstr3b_gstr1", "gstr3b_books",
     "itc_gstr3b_gstr2b", "itc_eligibility", "gstr1_eway", "gstr2_eway",
     "gstr1_einvoice", "turnover_recon"}

\* A lookup that falls back on a predefined mapping instead of the empty dict.
get_mapping_configFallback(tag) ==
    IF tag = "gstr2_books" THEN GSTR2_BOOKS_MAPPING ELSE GSTR1_BOOKS_MAPPING

\* mapping_configs.get(recon_type, {})
get_mapping_config(tag) ==
    CASE tag = "gstr1_books"       -> GSTR1_BOOKS_MAPPING
      [] tag = "gstr2_books"       -> GSTR2_BOOKS_MAPPING
      [] tag = "gstr3b_gstr1"      -> GSTR3B_GSTR1_MAPPING
      [] tag = "gstr3b_books"      -> GSTR3B_BOOKS_MAPPING
      [] tag = "itc_gstr3b_gstr2b" -> ITC_GSTR3B_GSTR2B_MAPPING
      [] tag = "itc_eligibility"   -> ITC_BOOKS_ELIGIBILITY_MAPPING
      [] tag = "gstr1_eway"        -> GSTR1_EWAY_MAPPING
      [] tag = "gstr2_eway"        -> GSTR2_EWAY_MAPPING
      [] tag = "gstr1_einvoice"    -> GSTR1_EINVOICE_MAPPING
      [] tag = "turnover_recon"    -> TURNOVER_MAPPING
      [] OTHER                     -> EmptyDict

\* The columns of the input tables, and a row of such a table.
ProcColumns == {"Invoice Number", "Invoice Date", "Taxable Value"}

PRow(inv, date, value) ==
    [c \in ProcColumns |->
        CASE c = "Invoice Number" -> inv
          [] c = "Invoice Date"   -> date
          [] OTHER                -> value]

ColumnsOf(df) == IF df = <<>> THEN {} ELSE DOMAIN df[1]

\* The order of the dates of ParsableDates; a comparison with NaT is False.
DateRank(d) == IF d = "2024-04-01" THEN 1 ELSE 2

\* A comparison that would leave the bound itself outside the range.
DateLess(d, e) == d # NaT /\ e # NaT /\ DateRank(d) < DateRank(e)

DateLeq(d, e) == d # NaT /\ e # NaT /\ DateRank(d) <= DateRank(e)

\* df.rename(columns=column_mapping)
RenameColumns(df, column_mapping) ==
    [i \in Idx(df) |->
        [c \in {Get(column_mapping, old, old) : old \in DOMAIN df[i]} |->
            df[i][CHOOSE old \in DOMAIN df[i] : Get(column_mapping, old, old) = c]]]

\* df[date_column] = pd.to_datetime(df[date_column], errors='coerce')
ConvertDates(df, col) ==
    [i \in Idx(df) |-> [df[i] EXCEPT ![col] = ToDatetime(df[i][col])]]

\* df[col] = pd.to_numeric(df[col], errors='coerce').fillna(0)
ToNumericFillna(df, col) ==
    [i \in Idx(df) |-> [df[i] EXCEPT ![col] = Num(ZeroIfNa(df[i][col]))]]

RECURSIVE CoerceNumeric(_, _, _)
CoerceNumeric(df, numeric_columns, n) ==
    IF n > Len(numeric_columns) THEN df
    ELSE CoerceNumeric(
            IF numeric_columns[n] \in ColumnsOf(df)
            THEN ToNumericFillna(df, numeric_columns[n])
            ELSE df,
            numeric_columns, n + 1)

\* preprocess_data(df, mapping, from_date, to_date), without the group_by
\* step.  out is the table returned, caller the table the caller passed, as
\* the caller finds it afterwards: an assignment to a column reaches it as
\* long as df has not been rebound to a renamed or filtered table.
PreprocessData(df, mapping, from_date, to_date) ==
    LET renamed == "column_mapping" \in DOMAIN mapping
        df1 == IF renamed THEN RenameColumns(df, mapping["column_mapping"]) ELSE df
        date_column == Get(mapping, "date_column", None)
        has_date == date_column # None /\ date_column \in ColumnsOf(df1)
        df2 == IF has_date THEN ConvertDates(df1, date_column) ELSE df1
        filter_from == has_date /\ from_date # None
        filter_to == has_date /\ to_date # None
        df3 == IF filter_from
               THEN SelectSeq(df2, LAMBDA r : DateLeq(from_date, r[date_column]))
               ELSE df2
        df4 == IF filter_to
               THEN SelectSeq(df3, LAMBDA r : DateLeq(r[date_column], to_date))
               ELSE df3
        df5 == CoerceNumeric(df4, Get(mapping, "numeric_columns", <<>>), 1)
    IN  [out |-> df5,
         caller |-> IF renamed THEN df
                    ELSE IF filter_from \/ filter_to THEN df2
                    ELSE df5]

\* generic_reconciliation, lines 161-166: the mapping is refused.
GenericRaises(mapping) ==
    LET key_columns == Get(mapping, "key_columns", <<>>)
        source1_value_column == Get(Get(mapping, "source1", EmptyDict), "value_column", None)
        source2_value_column == Get(Get(mapping, "source2", EmptyDict), "value_column", None)
    IN  \/ key_columns = <<>>
        \/ source1_value_column \in {None, ""}
        \/ source2_value_column \in {None, ""}

\* generic_reconciliation, lines 169-203: the outer join on the key columns.
\* A joined row carries the positions l and r of the rows of df1 and df2 it
\* was joined from (0: the key is absent from that table).
GenericResult(df1, df2, mapping) ==
    LET key_columns == mapping["key_columns"]
        v1 == mapping["source1"]["value_column"]
        v2 == mapping["source2"]["value_column"]
        KeyOfRow(r) == [k \in Idx(key_columns) |-> r[key_columns[k]]]
        both  == {p \in Idx(df1) \X Idx(df2) : KeyOfRow(df1[p[1]]) = KeyOfRow(df2[p[2]])}
        left  == {i \in Idx(df1) : \A j \in Idx(df2) : <<i, j>> \notin both}
        right == {j \in Idx(df2) : \A i \in Idx(df1) : <<i, j>> \notin both}
    IN       {[l |-> p[1], r |-> p[2],
               row |-> JoinedRow(KeyOfRow(df1[p[1]]), df1[p[1]][v1], df2[p[2]][v2])]
                 : p \in both}
        \cup {[l |-> i, r |-> 0, row |-> JoinedRow(KeyOfRow(df1[i]), df1[i][v1], NaN)]
                 : i \in left}
        \cup {[l |-> 0, r |-> j, row |-> JoinedRow(KeyOfRow(df2[j]), NaN, df2[j][v2])]
                 : j \in right}

\* reconcile_turnover hands generic_reconciliation a dict built from three
\* keys of the mapping; the nine other reconcile_* functions hand it the
\* mapping itself.
DispatchedMapping(tag, mapping_config) ==
    IF tag = "turnover_recon"
    THEN "key_columns" :> Get(mapping_config, "key_columns", <<>>)
         @@ "source1" :> Get(mapping_config, "source1", EmptyDict)
         @@ "source2" :> Get(mapping_config, "source2", EmptyDict)
    ELSE mapping_config

ColorCode(status) ==
    CASE status = "Matched"          -> "green"
      [] status = "Mismatched"       -> "red"
      [] status = "Only in Source 1" -> "orange"
      [] status = "Only in Source 2" -> "yellow"

\* apply_thresholds(df, amount_threshold, percent_threshold)
ApplyThresholds(df, amt, pct) ==
    {[l |-> x.l, r |-> x.r, row |-> x.row,
      Status |-> Status(x.row, amt, pct),
      color_code |-> ColorCode(Status(x.row, amt, pct))] : x \in df}

(***************************************************************************)
(* Calls of process_reconciliation (with a variant tag) and, directly, of  *)
(* generic_reconciliation (with a mapping of the caller) followed by       *)
(* apply_thresholds on the table it returned.                              *)
(***************************************************************************)
ProcPool ==
    { PRow("INV001", "2024-04-01", Num(100000)),
      PRow("INV001", "2024-04-01", Num(0)),
      PRow("INV001", "2024-04-02", Num(103000)),
      PRow("INV002", "2024-04-02", Num(50000)) }

\* Tags that get_mapping_config does not know.
UnknownTags == {"gstr9_books", "GSTR1_BOOKS"}

ValueColumn == [value_column |-> "Taxable Value"]

\* Mappings a caller hands to generic_reconciliation: two that name key and
\* value columns of the tables, and five that lack one of them.
CompleteMappings ==
    { [key_columns |-> <<"Invoice Number">>,
       source1 |-> ValueColumn, source2 |-> ValueColumn],
      [key_columns |-> <<"Invoice Number", "Invoice Date">>,
       source1 |-> ValueColumn, source2 |-> ValueColumn] }

DeficientMappings ==
    { EmptyDict,
      [source1 |-> ValueColumn, source2 |-> ValueColumn],
      [key_columns |-> <<>>, source1 |-> ValueColumn, source2 |-> ValueColumn],
      [key_columns |-> <<"Invoice Number">>,
       source1 |-> [date_column |-> "Invoice Date"], source2 |-> ValueColumn],
      [key_columns |-> <<"Invoice Number">>, source1 |-> ValueColumn] }

InitProc ==
    /\ source1_df \in Tables(ProcPool, MaxRows)
    /\ source2_df \in Tables(ProcPool, MaxRows)
    /\ \/ recon_type \in PredefinedTags \cup UnknownTags /\ mapping_arg = EmptyDict
       \/ recon_type = None /\ mapping_arg \in CompleteMappings \cup DeficientMappings
    /\ result_df = <<>>
    /\ error = None
    /\ procPc = "called"
    /\ IdlePre /\ IdleBooks /\ IdleEway /\ IdleMain /\ IdleCmp

Raise(message, caller1, caller2) ==
    /\ procPc' = "raised"
    /\ error' = message
    /\ source1_df' = caller1
    /\ source2_df' = caller2
    /\ UNCHANGED <<recon_type, mapping_arg, result_df>>

\* process_reconciliation(recon_type, source1_df, source2_df, None, from_date,
\* to_date, amount_threshold, percent_threshold); a threshold passed as None
\* is the default, which AmountThresholds and PercentageThresholds contain.
ProcessReconciliation ==
    /\ procPc = "called"
    /\ recon_type # None
    /\ \E from_date \in ParsableDates \cup {None}, to_date \in ParsableDates \cup {None} :
          LET mapping_config == get_mapping_config(recon_type)
              p1 == PreprocessData(source1_df, Get(mapping_config, "source1", EmptyDict),
                                   from_date, to_date)
              p2 == PreprocessData(source2_df, Get(mapping_config, "source2", EmptyDict),
                                   from_date, to_date)
              mapping == DispatchedMapping(recon_type, mapping_config)
          IN  IF DOMAIN mapping_config = {}          \* if not mapping_config
              THEN Raise("Invalid reconciliation type", source1_df, source2_df)
              ELSE IF GenericRaises(mapping)
              THEN Raise("Missing key or value column mapping", p1.caller, p2.caller)
              ELSE /\ procPc' = "returned"
                   /\ \E amt \in AmountThresholds, pct \in PercentageThresholds :
                         result_df' = ApplyThresholds(
                                         GenericResult(p1.out, p2.out, mapping), amt, pct)
                   /\ source1_df' = p1.caller
                   /\ source2_df' = p2.caller
                   /\ UNCHANGED <<recon_type, mapping_arg, error>>
    /\ UNCHANGED <<preVars, booksVars, ewayVars, mainVars, cmpVars>>

\* generic_reconciliation(source1_df, source2_df, mapping_arg)
GenericReconciliation ==
    /\ procPc = "called"
    /\ recon_type = None
    /\ IF GenericRaises(mapping_arg)
       THEN Raise("Missing key or value column mapping", source1_df, source2_df)
       ELSE /\ procPc' = "joined"
            /\ result_df' = GenericResult(source1_df, source2_df, mapping_arg)
            /\ UNCHANGED <<recon_type, mapping_arg, source1_df, source2_df, error>>
    /\ UNCHANGED <<preVars, booksVars, ewayVars, mainVars, cmpVars>>

\* apply_thresholds(result_df, amount_threshold, percent_threshold)
ApplyThresholdsCall ==
    /\ procPc = "joined"
    /\ \E amt \in AmountThresholds, pct \in PercentageThresholds :
          result_df' = ApplyThresholds(result_df, amt, pct)
    /\ procPc' = "returned"
    /\ UNCHANGED <<recon_type, mapping_arg, source1_df, source2_df, error>>
    /\ UNCHANGED <<preVars, booksVars, ewayVars, mainVars, cmpVars>>

NextProc == ProcessReconciliation \/ GenericReconciliation \/ ApplyThresholdsCall

SpecProc == InitProc /\ [][NextProc]_vars

(***************************************************************************)
(* C8  The Status that apply_thresholds gives a row of the outer join      *)
(* reflects presence, not value: 'Only in Source 1' if and only if the key *)
(* is absent from source 2, 'Only in Source 2' if and only if it is absent *)
(* from source 1; so a row of one source only is never 'Matched' and a row *)
(* of a key of both sources is never 'Only in ...', also for a value 0.    *)
(***************************************************************************)
C8_StatusReflectsPresence ==
    procPc = "returned" =>
        \A x \in result_df :
            /\ x.Status = "Only in Source 1" <=> x.r = 0
            /\ x.Status = "Only in Source 2" <=> x.l = 0

(***************************************************************************)
(* C9  For each of the ten predefined variant tags and well-formed input   *)
(* tables, process_reconciliation returns a result table in which every    *)
(* row carries a Status; it does not fail with a configuration error.      *)
(***************************************************************************)
C9_PredefinedVariantsReturn ==
    (recon_type \in PredefinedTags /\ procPc # "called") =>
        /\ procPc = "returned"
        /\ error = None
        /\ \A x \in result_df :
              x.Status \in {"Matched", "Mismatched", "Only in Source 1", "Only in Source 2"}

(***************************************************************************)
(* C10  A configuration error is fatal and atomic: process_reconciliation  *)
(* called with a tag that has no mapping, and generic_reconciliation       *)
(* called with a mapping lacking key columns or a value column, raise      *)
(* their error, return no result and leave both input tables as they were. *)
(***************************************************************************)
LacksKeyOrValue(m) ==
    \/ "key_columns" \notin DOMAIN m
    \/ m["key_columns"] = <<>>
    \/ \E s \in {"source1", "source2"} :
          \/ s \notin DOMAIN m
          \/ "value_column" \notin DOMAIN m[s]

C10_ConfigErrorFatalAtomic ==
    [][ /\ (procPc = "called" /\ recon_type # None /\ recon_type \notin PredefinedTags)
            => /\ procPc' = "raised"
               /\ error' = "Invalid reconciliation type"
               /\ result_df' = <<>>
               /\ source1_df' = source1_df /\ source2_df' = source2_df
        /\ (procPc = "called" /\ recon_type = None /\ LacksKeyOrValue(mapping_arg))
            => /\ procPc' = "raised"
               /\ error' = "Missing key or value column mapping"
               /\ result_df' = <<>>
               /\ source1_df' = source1_df /\ source2_df' = source2_df
      ]_vars

C10_Witness ==
    /\ procPc = "raised"
    /\ recon_type = None
    /\ "key_columns" \in DOMAIN mapping_arg
    /\ LacksKeyOrValue(mapping_arg)
    /\ error = "Missing key or value column mapping"
    /\ Len(source1_df) = MaxRows

(***************************************************************************)
(* C11  An unparsable invoice date never aborts a run: when a record's     *)
(* Invoice Date is the unknown-date value, reconcile of the class-based    *)
(* reconcilers still returns a result in which that record is classified.  *)
(***************************************************************************)
HasUnknownDate(df) == \E i \in Idx(df) : df[i].date = NaT

C11_UnknownDateDoesNotAbort ==
    (booksPc # "loaded" /\ (HasUnknownDate(gstr_df) \/ HasUnknownDate(books_df))) =>
        /\ booksPc = "returned"
        /\ \A i \in Idx(gstr_df) :
              gstr_df[i].date = NaT =>
                 \E e \in results.matches \cup results.mismatches
                            \cup results.missing_in_books :
                    e.invoice_number = gstr_df[i].inv /\ e.invoice_date = NaT

(***************************************************************************)
(* GSTR1BooksReconciliation.load_data / GSTR2BooksReconciliation.load_data *)
(* on the column names of the two files.  A column name is a sequence of   *)
(* characters.                                                             *)
(***************************************************************************)
ColInvoiceDate == <<"I", "n", "v", "o", "i", "c", "e", " ", "D", "a", "t", "e">>
ColInvoiceValue == <<"I", "n", "v", "o", "i", "c", "e", " ", "V", "a", "l", "u", "e">>
ColTaxableValue == <<"T", "a", "x", "a", "b", "l", "e", " ", "V", "a", "l", "u", "e">>
ColIntegratedTax == <<"I", "n", "t", "e", "g", "r", "a", "t", "e", "d", " ", "T", "a", "x">>
ColCentralTax == <<"C", "e", "n", "t", "r", "a", "l", " ", "T", "a", "x">>
ColStateUTTax == <<"S", "t", "a", "t", "e", "/", "U", "T", " ", "T", "a", "x">>
ColCess == <<"C", "e", "s", "s">>
ColRate == <<"R", "a", "t", "e">>
ColIGST == <<"I", "G", "S", "T">>
ColCGST == <<"C", "G", "S", "T">>
ColSGST == <<"S", "G", "S", "T", "/", "U", "T", "G", "S", "T">>
ColCessPadded == <<" ", "C", "e", "s", "s", " ">>
ColGSTRType == <<"G", "S", "T", "R", "_", "T", "y", "p", "e">>

IsLetter(c) == c \in Range(LowerLetters) \cup Range(UpperLetters)

LowerChar(c) ==
    IF c \in Range(UpperLetters)
    THEN LowerLetters[CHOOSE k \in DOMAIN UpperLetters : UpperLetters[k] = c]
    ELSE c

\* str.title(): a letter that follows a letter is lower-cased, any other
\* letter upper-cased.
Title(str) ==
    [i \in Idx(str) |->
        IF i > 1 /\ IsLetter(str[i - 1]) THEN LowerChar(str[i]) ELSE UpperChar(str[i])]

\* gstr1_books.py: df.columns.str.strip();
\* gstr2_books.py: [col.strip().title() for col in df.columns]
standardize_columns(variant, columns) ==
    IF variant = "gstr1_books"
    THEN {Strip(col) : col \in columns}
    ELSE {Title(Strip(col)) : col \in columns}

date_columns == {ColInvoiceDate}

numeric_cols ==
    {ColInvoiceValue, ColTaxableValue, ColIntegratedTax, ColCentralTax,
     ColStateUTTax, ColCess, ColRate}

\* format_date_columns / clean_numeric_data read df[col] for every declared
\* column: a column the table lacks is a KeyError.
LoadRaises(columns) == \E col \in date_columns \cup numeric_cols : col \notin columns

\* load_data: any exception is re-raised as "Error loading data"; the
\* GSTR-2 variant adds the column GSTR_Type.
LoadData ==
    /\ loadPc = "read"
    /\ LET g == standardize_columns(load_variant, gstr_columns)
           b == standardize_columns(load_variant, books_columns)
       IN  IF LoadRaises(g) \/ LoadRaises(b)
           THEN /\ loadPc' = "raised"
                /\ UNCHANGED <<gstr_columns, books_columns>>
           ELSE /\ loadPc' = "loaded"
                /\ gstr_columns' = IF load_variant = "gstr2_books"
                                   THEN g \cup {ColGSTRType} ELSE g
                /\ books_columns' = b
    /\ UNCHANGED <<load_variant, gstr_df, books_df, results, booksPc, callVars>>
    /\ UNCHANGED <<ewayVars, mainVars, cmpVars, procVars>>

\* The column names of a file: the declared ones, the declared ones but one,
\* the declared ones with padding, and the names the Books side carries
\* according to GSTR1_BOOKS_MAPPING / GSTR2_BOOKS_MAPPING.
DeclaredColumns == date_columns \cup numeric_cols

BooksOwnColumns ==
    {ColInvoiceDate, ColInvoiceValue, ColTaxableValue, ColIGST, ColCGST, ColSGST,
     ColCess, ColRate}

HeaderPool ==
    {DeclaredColumns, BooksOwnColumns, (DeclaredColumns \ {ColCess}) \cup {ColCessPadded}}
      \cup {DeclaredColumns \ {col} : col \in DeclaredColumns}

InitLoad ==
    /\ load_variant \in {"gstr1_books", "gstr2_books"}
    /\ gstr_columns \in HeaderPool
    /\ books_columns \in HeaderPool
    /\ loadPc = "read"
    /\ gstr_df = <<>> /\ books_df = <<>> /\ results = <<>> /\ booksPc = "idle"
    /\ IdleCalls /\ IdleEway /\ IdleMain /\ IdleCmp /\ IdleProc

NextLoad == LoadData

SpecLoad == InitLoad /\ [][NextLoad]_vars

(***************************************************************************)
(* C12  A missing column is a non-fatal data-quality issue: when a source  *)
(* table lacks one of the declared numeric or date columns (a Books table  *)
(* that carries 'IGST', 'CGST' rather than 'Integrated Tax', 'Central      *)
(* Tax'), load_data skips or defaults the column and the run continues.    *)
(***************************************************************************)
C12_MissingColumnNotFatal ==
    loadPc # "read" => loadPc = "loaded"

(***************************************************************************)
(* C13  In the Differ of the e-way-bill and e-invoice variants, as in the  *)
(* register-vs-return variants, a value that is missing on one side is     *)
(* compared as numeric zero: a pair whose numeric field is missing on one  *)
(* side and 0 on the other, or missing on both sides, is not flagged for   *)
(* that field.                                                             *)
(***************************************************************************)
C13_MissingComparedAsZero ==
    ewayPc = "returned" =>
        \A p \in eway_results.matched_invoices \cup eway_results.mismatched_invoices :
            \A c \in NumericColumns(eway_variant) :
                LET a == gstr1_data[p.a].vals[c]
                    b == eway_data[p.b].vals[c]
                IN  ((IsNa(a) \/ IsNa(b)) /\ ZeroIfNa(a) = ZeroIfNa(b))
                        => c \notin p.discrepancies

(***************************************************************************)
(* C14  The percentage difference computed for a compared pair a, b equals *)
(* |a - b| / max(|a|, |b|, 1) * 100 wherever the engine computes one (the  *)
(* record-level Differ, generic_reconciliation, the e-way-bill / e-invoice *)
(* and total-level variants); it is therefore finite and non-negative.     *)
(***************************************************************************)
RECURSIVE GCD(_, _)
GCD(x, y) == IF y = 0 THEN x ELSE GCD(y, x % y)

\* A fraction with a positive denominator, in lowest terms.
Lowest(q) ==
    LET g == GCD(Abs(q[1]), Abs(q[2]))
        sign == IF q[2] < 0 THEN -1 ELSE 1
    IN  <<sign * (q[1] \div g), sign * (q[2] \div g)>>

DocumentedPercent(a, b) == <<Abs(a - b) * 100, Max3(Abs(a), Abs(b), Rupee)>>

C14_PercentFormula ==
    (cmpPc = "done" /\ verdict.percent # <<>>) =>
        /\ verdict.percent[2] # 0
        /\ Lowest(verdict.percent) = Lowest(DocumentedPercent(cmp_a, cmp_b))

\* The same for the record-level Differ alone.
C14_DifferPercentFormula ==
    (cmpPc = "done" /\ verdict.by = "differ" /\ verdict.percent # <<>>) =>
        /\ verdict.percent[2] # 0
        /\ Lowest(verdict.percent) = Lowest(DocumentedPercent(cmp_a, cmp_b))

(***************************************************************************)
(* C15  Key determinism: two records whose key fields are equal up to      *)
(* letter case and leading/trailing whitespace get the same MatchKey       *)
(* whichever source they come from, so that the class-based reconcilers    *)
(* pair them instead of reporting two orphans.                             *)
(***************************************************************************)
\* The invoice numbers of BooksPool, upper-cased and trimmed.
Canonical(inv) == IF inv = "inv001 " THEN "INV001" ELSE inv

SameKeyUpToCase(ra, rb) ==
    /\ Canonical(ra.inv) = Canonical(rb.inv)
    /\ ra.date = rb.date
    /\ ra.gstin = rb.gstin

C15_KeyDeterminism ==
    booksPc = "returned" =>
        \A i \in Idx(gstr_df), j \in Idx(books_df) :
            SameKeyUpToCase(gstr_df[i], books_df[j]) =>
                /\ MatchKey(gstr_df[i]) = MatchKey(books_df[j])
                /\ \A e \in results.missing_in_books :
                      e.invoice_number # gstr_df[i].inv

(***************************************************************************)
(* GSTR3BGSTR1Reconciliation.compare_returns.  gstr3b_data is the sheet of *)
(* Field / Value rows, gstr1_sections the Taxable Value of GSTR-1 summed   *)
(* by Section.                                                             *)
(***************************************************************************)
comparison_mapping ==
    <<"Table 3.1(a)", "Table 3.1(b)", "Table 3.1(c)", "Table 3.1(d)", "Table 3.1(e)",
      "Table 3.2">>

\* _extract_value_from_gstr3b / _extract_value_from_gstr1: 0.0 if not found.
ExtractValue(data, name) == Get(data, name, 0)

RECURSIVE SumOver(_, _)
SumOver(data, names) ==
    IF names = <<>> THEN 0
    ELSE ExtractValue(data, Head(names)) + SumOver(data, Tail(names))

\* extract_gstr1_table_values: a field whose list of GSTR-1 tables is empty
\* gets no entry.
extract_gstr1_table_values(sections) ==
    [t \in {k \in DOMAIN GSTR3B_GSTR1_MAPPING : GSTR3B_GSTR1_MAPPING[k] # <<>>} |->
        SumOver(sections, GSTR3B_GSTR1_MAPPING[t])]

\* One entry of comparison_data (lines 234-260).
ComparisonRow(gstr3b_value, gstr1_value) ==
    LET diff == gstr3b_value - gstr1_value
        base_value == Max2(Abs(gstr3b_value), Abs(gstr1_value))
    IN  [GSTR3B_Value |-> gstr3b_value, GSTR1_Value |-> gstr1_value,
         Difference |-> diff,
         Is_Significant |->
            /\ Abs(diff) > AMOUNT_THRESHOLD
            /\ base_value > 0
            /\ Abs(diff) * 100 * Hundredths > PERCENTAGE_THRESHOLD * 100 * base_value]

DetailedComparison(data3b, sections) ==
    LET gstr1_values == extract_gstr1_table_values(sections)
    IN  [k \in Range(comparison_mapping) |->
            ComparisonRow(ExtractValue(data3b, k), Get(gstr1_values, k, 0))]

\* create_summary (lines 291-299)
CreateSummary(comparison) ==
    LET significant_issues == Cardinality({k \in DOMAIN comparison : comparison[k].Is_Significant})
    IN  [significant_issues |-> significant_issues,
         status |-> IF significant_issues > 0 THEN "Needs Review" ELSE "Reconciled"]

CompareReturns ==
    /\ returnsPc = "loaded"
    /\ detailed_comparison' = DetailedComparison(gstr3b_data, gstr1_sections)
    /\ summary_data' = CreateSummary(DetailedComparison(gstr3b_data, gstr1_sections))
    /\ returnsPc' = "compared"
    /\ UNCHANGED <<gstr3b_data, gstr1_sections>>
    /\ UNCHANGED <<cmp_a, cmp_b, amount_threshold, percentage_threshold, verdict, cmpPc>>
    /\ UNCHANGED <<booksVars, ewayVars, mainVars, procVars>>

\* Values of a field of GSTR-3B and of a section of GSTR-1.
TotalValues == {0, 50000}

VaryingSections == {"Table 4", "Table 6: Zero rated supplies", "Nil rated, exempted supplies"}

InitReturns ==
    /\ gstr3b_data \in [Range(comparison_mapping) \ {"Table 3.2"} -> TotalValues]
    /\ gstr1_sections \in [VaryingSections -> TotalValues]
    /\ detailed_comparison = <<>>
    /\ summary_data = <<>>
    /\ returnsPc = "loaded"
    /\ cmp_a = 0 /\ cmp_b = 0 /\ amount_threshold = 0 /\ percentage_threshold = 0
    /\ verdict = <<>> /\ cmpPc = "idle"
    /\ IdleBooks /\ IdleEway /\ IdleMain /\ IdleProc

NextReturns == CompareReturns

SpecReturns == InitReturns /\ [][NextReturns]_vars

(***************************************************************************)
(* C16  A source-A field whose mapping target is empty is excluded from    *)
(* comparison in the total-level variants: 'Table 3.1(d)' and 'Table       *)
(* 3.1(e)' are never compared against a defaulted zero in compare_returns  *)
(* and never reported as a significant difference.                         *)
(***************************************************************************)
EmptyTargets == {k \in DOMAIN GSTR3B_GSTR1_MAPPING : GSTR3B_GSTR1_MAPPING[k] = <<>>}

C16_EmptyTargetExcluded ==
    returnsPc = "compared" =>
        \A k \in EmptyTargets :
            /\ k \notin DOMAIN detailed_comparison
            /\ k \in DOMAIN detailed_comparison => ~detailed_comparison[k].Is_Significant

\* C16, the second half alone: a field whose mapping target is empty is never
\* reported as a significant difference by compare_returns.
C16_EmptyTargetNeverSignificant ==
    returnsPc = "compared" =>
        \A k \in EmptyTargets :
            k \in DOMAIN detailed_comparison => ~detailed_comparison[k].Is_Significant

(***************************************************************************)
(* C17  A source-A record without a source-B counterpart appears in the    *)
(* missing-in-B bucket carrying all of its original fields with their      *)
(* original values: the entry of missing_in_books holds the key fields and *)
(* every value column of the GSTR record it was built from.                *)
(***************************************************************************)
C17_MissingEntryIntact ==
    booksPc = "returned" =>
        \A e \in results.missing_in_books :
            /\ e.invoice_number = gstr_df[e.row].inv
            /\ e.invoice_date = gstr_df[e.row].date
            /\ e.gstin = gstr_df[e.row].gstin
            /\ \A c \in value_columns :
                  c \in DOMAIN e /\ e[c] = gstr_df[e.row].vals[c]

(***************************************************************************)
(* C18  Fallback key example: an A record with invoice number              *)
(* "SI-2024-00045" and a B record with invoice number "INV00045" of the    *)
(* same counterparty both yield the key "00045" and are paired by the      *)
(* normalized-text or numeric-only key, not by the exact key and not by    *)
(* amount similarity.                                                      *)
(***************************************************************************)
ExampleA == <<"S","I","-","2","0","2","4","-","0","0","0","4","5">>
ExampleB == <<"I","N","V","0","0","0","4","5">>
ExampleKey == <<"0","0","0","4","5">>

C18_FallbackKeyExample ==
    \A i \in Idx(df_2b), j \in Idx(df_csv) :
        (df_2b[i].inv_num = ExampleA /\ df_csv[j].inv_num = ExampleB
            /\ df_2b[i].gstin = df_csv[j].gstin) =>
            /\ \/ df_2b[i].norm_inv_num = ExampleKey /\ df_csv[j].norm_inv_num = ExampleKey
               \/ df_2b[i].num_only = ExampleKey /\ df_csv[j].num_only = ExampleKey
            /\ \A e \in Range(matched) \cup Range(mismatched) :
                  (e.a = i /\ e.b = j) => e.ghost_strategy \in {"normalized", "numeric"}

\* C18, the pairing alone: whenever the two example records are paired, the
\* strategy that paired them is the normalized-text or the numeric-only key.
C18_PairedByInvoiceKey ==
    \A e \in Range(matched) \cup Range(mismatched) :
        (df_2b[e.a].inv_num = ExampleA /\ df_csv[e.b].inv_num = ExampleB) =>
            e.ghost_strategy \in {"normalized", "numeric"}

(***************************************************************************)
(* C19  Every pairing obtained through the amount-similarity (fuzzy)       *)
(* strategy is explicitly marked as fuzzy in its result entry, in the      *)
(* matched and in the mismatched bucket alike, so that it can be told      *)
(* apart from an exact-key pairing and from a pairing by the normalized or *)
(* numeric-only key.                                                       *)
(***************************************************************************)
\* The only flag about the strategy that an entry carries is exact_match;
\* an entry reads as fuzzy when it carries the flag and the flag is False.
ReadsAsFuzzy(e) == "exact_match" \in DOMAIN e /\ ~e.exact_match

C19_FuzzyIsMarked ==
    \A e \in Range(matched) \cup Range(mismatched) :
        ReadsAsFuzzy(e) <=> e.ghost_strategy = "fuzzy"

\* C19, one direction alone: a fuzzy pairing carries the flag.
C19_FuzzyCarriesFlag ==
    \A e \in Range(matched) \cup Range(mismatched) :
        e.ghost_strategy = "fuzzy" => ReadsAsFuzzy(e)

(***************************************************************************)
(* C20  match_percentage = matched_count / total_considered * 100, where   *)
(* total_considered is the number of all input records on both sides,      *)
(* |A| + |B| as they were before matching: records consumed by a pairing   *)
(* still count in the denominator.                                         *)
(***************************************************************************)
C20_MatchPercentageOverAllRecords ==
    mainPc = "done" =>
        /\ summary.total_invoices = Len(df_2b) + Len(df_csv)
        /\ 2 * (Len(df_2b) + Len(df_csv)) * summary.match_percentage
              <= 2 * Len(matched) * 100 * Hundredths + (Len(df_2b) + Len(df_csv))
        /\ 2 * (Len(df_2b) + Len(df_csv)) * summary.match_percentage
              > 2 * Len(matched) * 100 * Hundredths - (Len(df_2b) + Len(df_csv))

(***************************************************************************)
(* C21  Idempotence: a second call of the reconciliation on the same table *)
(* objects, as the first call left them, gives the same outcome as the     *)
(* first: the same four buckets as sets and the same summary counts (or    *)
(* the same error).  The first call writes the column match_key to the     *)
(* caller's tables; the second call derives the keys again from the three  *)
(* key columns, which the first call left alone.                           *)
(***************************************************************************)
C21_Idempotent ==
    (calls >= 2 /\ booksPc # "idle") =>
        previous = [pc |-> booksPc, results |-> results]

C21_Witness ==
    /\ calls >= 2 /\ booksPc = "returned"
    /\ \E i \in Idx(gstr_df) : "match_key" \in DOMAIN gstr_df[i]
    /\ results.mismatches # {} /\ results.missing_in_books # {}
    /\ previous.results = results

\* The same for reconcile_gstr1_eway / reconcile_gstr2_eway /
\* reconcile_gstr1_einvoice (specification SpecEway).
C21_EwayIdempotent ==
    (calls >= 2 /\ ewayPc # "idle") =>
        previous = [pc |-> ewayPc, results |-> eway_results]

(***************************************************************************)
(* C22  A reconciliation call does not modify the caller's tables: when    *)
(* reconcile has returned (or raised), each input table has the columns it *)
(* had before the call, so no row carries a column match_key.              *)
(***************************************************************************)
C22_InputsUnmodified ==
    booksPc \in {"returned", "raised"} =>
        /\ \A i \in Idx(gstr_df) : "match_key" \notin DOMAIN gstr_df[i]
        /\ \A i \in Idx(books_df) : "match_key" \notin DOMAIN books_df[i]

(***************************************************************************)
(* C23  Strategy cascade order in the fallback matcher: in every iteration *)
(* of the loop the labels that leave df_csv are those selected by the      *)
(* first strategy, in the order exact key, normalized-text key,            *)
(* numeric-only key, amount similarity, that has a candidate among the B   *)
(* records still unconsumed; the A record becomes an orphan exactly when   *)
(* no strategy has one.                                                    *)
(***************************************************************************)
\* The unconsumed B records of the same GSTIN whose amount is within 1% of
\* the A value or within 10 currency units of it.
AmountCandidates(row, idx) ==
    {j \in idx :
        /\ df_csv[j].gstin = row.gstin
        /\ \/ Abs(df_csv[j].taxable_value - row.taxable_value) * 100
                 < 1 * row.taxable_value
           \/ Abs(df_csv[j].taxable_value - row.taxable_value) < 10 * Rupee}

C23_CascadeOrder ==
    [][(mainPc = "loop" /\ rowPos' = rowPos + 1) =>
        LET row      == df_2b[rowPos + 1]
            exact    == ExactMatch(row, csv_index)
            norm     == NormMatch(row, csv_index)
            numeric  == NumOnlyMatch(row, csv_index)
            amount   == AmountCandidates(row, csv_index)
            consumed == csv_index \ csv_index'
        IN  /\ exact # {} => consumed = exact
            /\ (exact = {} /\ norm # {}) => consumed = norm
            /\ (exact = {} /\ norm = {} /\ numeric # {}) => consumed = numeric
            /\ (exact = {} /\ norm = {} /\ numeric = {} /\ amount # {}) =>
                   (consumed \subseteq amount /\ Cardinality(consumed) = 1)
            /\ (exact = {} /\ norm = {} /\ numeric = {} /\ amount = {}) <=>
                   (Len(missing_in_csv') = Len(missing_in_csv) + 1)
      ]_vars

\* A pairing by the numeric-only key while an earlier, still unconsumed B
\* record was a candidate of the amount similarity.
C23_Witness ==
    \E e \in Range(matched) \cup Range(mismatched) :
        /\ e.ghost_strategy = "numeric"
        /\ \E j \in AmountCandidates(e.row, csv_index) : j < e.b

(***************************************************************************)
(* The loop on tables chosen for the amount strategy: GSTR-2B records with *)
(* and without a partner by invoice number, and purchase-register rows of  *)
(* the same GSTIN whose amounts are equal, within 10 currency units but    *)
(* not within 1%, within 1% but not within 10 units, and far away.         *)
(***************************************************************************)
AmountPool2b ==
    { Inv("29AAA", <<"I","N","V","0","0","1">>, 100000, 18),
      Inv("29AAA", <<"S","I","-","2","0","2","4","-","0","0","0","4","5">>, 50000, 18),
      Inv("29AAA", <<"X","-","9">>, 100400, 18) }

AmountPoolCsv ==
    { Inv("29AAA", <<"I","N","V","0","0","1">>, 100000, 18),
      Inv("29AAA", <<"I","N","V","0","0","0","4","5">>, 50000, 18),
      Inv("29AAA", <<"B","7">>, 50700, 18),
      Inv("29AAA", <<"C","8">>, 101402, 18),
      Inv("29AAA", <<"D","6">>, 300000, 12) }

InitAmount ==
    /\ df_2b \in {StandardizeTable(t) : t \in Tables(AmountPool2b, MaxRows)}
    /\ df_csv \in {StandardizeTable(t) : t \in Tables(AmountPoolCsv, MaxRows)}
    /\ csv_index = Idx(df_csv)
    /\ rowPos = 0
    /\ matched = <<>> /\ mismatched = <<>>
    /\ missing_in_csv = <<>> /\ missing_in_json = <<>>
    /\ summary = <<>>
    /\ mainPc = "loop"
    /\ IdleBooks /\ IdleEway /\ IdleCmp /\ IdleProc

SpecAmount == InitAmount /\ [][NextMain]_vars

(***************************************************************************)
(* C24  Amount-similarity strategy: an A record with no candidate under an *)
(* invoice-number key is paired with the first (lowest label, the source   *)
(* order) unconsumed B record of the same GSTIN whose taxable value is     *)
(* within 1% of the A value or within 10 currency units of it; only that   *)
(* one B record is consumed, and with no such record the A record becomes  *)
(* an orphan and df_csv is left as it was.                                 *)
(***************************************************************************)
C24_AmountSimilarity ==
    [][(/\ mainPc = "loop" /\ rowPos' = rowPos + 1
        /\ ExactMatch(df_2b[rowPos + 1], csv_index) = {}
        /\ NormMatch(df_2b[rowPos + 1], csv_index) = {}
        /\ NumOnlyMatch(df_2b[rowPos + 1], csv_index) = {}) =>
        LET row    == df_2b[rowPos + 1]
            amount == AmountCandidates(row, csv_index)
            paired == matched' \o mismatched'
        IN  IF amount = {}
            THEN /\ csv_index' = csv_index
                 /\ missing_in_csv' = Append(missing_in_csv, [a |-> rowPos + 1, row |-> row])
                 /\ UNCHANGED <<matched, mismatched>>
            ELSE /\ csv_index' = csv_index \ {MinOf(amount)}
                 /\ \E k \in Idx(paired) :
                        paired[k].a = rowPos + 1 /\ paired[k].b = MinOf(amount)
                 /\ UNCHANGED missing_in_csv
      ]_vars

\* An amount pairing, within 1% but not within 10 units, that had a second,
\* different candidate further down.
C24_Witness ==
    \E e \in Range(matched) \cup Range(mismatched) :
        /\ e.ghost_strategy = "fuzzy"
        /\ Abs(df_csv[e.b].taxable_value - e.row.taxable_value) >= 10 * Rupee
        /\ \E j \in AmountCandidates(e.row, csv_index) :
              j > e.b /\ df_csv[j] # df_csv[e.b]

(***************************************************************************)
(* C25  Each fallback key is less specific than the one before it: for an  *)
(* A record and a B record, equal exact (uppercased, trimmed) invoice      *)
(* numbers have equal normalized-text keys, and equal normalized-text keys *)
(* have equal numeric-only keys; so a pair that matches under one strategy *)
(* also matches under every later invoice-number strategy.                 *)
(***************************************************************************)
\* The pairings made so far.
Paired == Range(matched) \cup Range(mismatched)

\* As stated: a pairing by the exact or the normalized key is also selected
\* by the later invoice-number strategies.
C25_LaterStrategiesAlsoMatch ==
    \A e \in Paired :
        /\ e.ghost_strategy = "exact" =>
              /\ e.b \in NormMatch(e.row, Idx(df_csv))
              /\ e.b \in NumOnlyMatch(e.row, Idx(df_csv))
        /\ e.ghost_strategy = "normalized" =>
              e.b \in NumOnlyMatch(e.row, Idx(df_csv))

\* What holds: the keys are nested, and the numeric-only strategy selects
\* the pair whenever the A record has a digit in its invoice number (the
\* strategy is skipped for an empty numeric-only key, main.py:320).
C25_KeysNested ==
    /\ \A i \in Idx(df_2b), j \in Idx(df_csv) :
          /\ df_2b[i].inv_num = df_csv[j].inv_num =>
                df_2b[i].norm_inv_num = df_csv[j].norm_inv_num
          /\ df_2b[i].norm_inv_num = df_csv[j].norm_inv_num =>
                df_2b[i].num_only = df_csv[j].num_only
    /\ \A e \in Paired :
          /\ e.ghost_strategy = "exact" => e.b \in NormMatch(e.row, Idx(df_csv))
          /\ (e.ghost_strategy \in {"exact", "normalized"} /\ e.row.num_only # <<>>) =>
                e.b \in NumOnlyMatch(e.row, Idx(df_csv))

\* A pairing by the exact key of two invoice numbers that were spelled
\* differently, and a pairing by the normalized key.
C25_Witness ==
    /\ \E e \in Paired : e.ghost_strategy = "exact" /\ e.row.num_only = <<>>
    /\ \E e \in Paired : e.ghost_strategy = "normalized" /\ e.row.num_only # <<>>

(***************************************************************************)
(* C26  Exact pairs survive sequential consumption: when the loop is over, *)
(* an A record and a B record of the same GSTIN and the same invoice       *)
(* number, where no other record of either table has that invoice number,  *)
(* are paired with each other, whatever the other records are and in       *)
(* whatever order the A records were processed.                            *)
(***************************************************************************)
C26_ExactPairsSurvive ==
    mainPc = "done" =>
        \A i \in Idx(df_2b), j \in Idx(df_csv) :
            (/\ df_2b[i].gstin = df_csv[j].gstin
             /\ df_2b[i].inv_num = df_csv[j].inv_num
             /\ \A k \in Idx(df_2b) \ {i} : df_2b[k].inv_num # df_2b[i].inv_num
             /\ \A k \in Idx(df_csv) \ {j} : df_csv[k].inv_num # df_csv[j].inv_num)
            => \E e \in Paired : e.a = i /\ e.b = j

(***************************************************************************)
(* preprocess_data, called by itself on one table with a mapping that      *)
(* names the date column of the table, with and without numeric columns    *)
(* and a column rename, and with each combination of the two bounds.       *)
(***************************************************************************)
PreprocessMappings ==
    { [date_column |-> "Invoice Date"],
      [date_column |-> "Invoice Date", numeric_columns |-> <<"Taxable Value">>],
      [column_mapping |-> [c \in {"Taxable Value"} |-> "Amount"],
       date_column |-> "Invoice Date"] }

\* Rows with both dates, a date that cannot be parsed and a missing amount.
PreprocessPool ==
    { PRow("INV001", "2024-04-01", Num(100000)),
      PRow("INV002", "2024-04-02", Num(50000)),
      PRow("INV003", "31-31-2024", Num(7000)),
      PRow("INV004", "2024-04-02", NaN) }

InitPreprocess ==
    /\ pre_df \in Tables(PreprocessPool, MaxRows)
    /\ pre_mapping \in PreprocessMappings
    /\ from_date_arg \in ParsableDates \cup {None}
    /\ to_date_arg \in ParsableDates \cup {None}
    /\ pre_out = <<>>
    /\ prePc = "called"
    /\ recon_type = None /\ mapping_arg = <<>> /\ source1_df = <<>>
    /\ source2_df = <<>> /\ result_df = <<>> /\ error = None /\ procPc = "idle"
    /\ IdleBooks /\ IdleEway /\ IdleMain /\ IdleCmp

\* pre_out = preprocess_data(pre_df, pre_mapping, from_date_arg, to_date_arg)
PreprocessCall ==
    /\ prePc = "called"
    /\ LET p == PreprocessData(pre_df, pre_mapping, from_date_arg, to_date_arg)
       IN  /\ pre_out' = p.out
           /\ pre_df' = p.caller
    /\ prePc' = "returned"
    /\ UNCHANGED <<pre_mapping, from_date_arg, to_date_arg>>
    /\ UNCHANGED <<recon_type, mapping_arg, source1_df, source2_df, result_df, error,
                   procPc>>
    /\ UNCHANGED <<booksVars, ewayVars, mainVars, cmpVars>>

NextPreprocess == PreprocessCall

SpecPreprocess == InitPreprocess /\ [][NextPreprocess]_vars

(***************************************************************************)
(* C27  Date-range filter of preprocess_data: with a mapping that names    *)
(* the date column, the table returned holds exactly the rows of the input *)
(* whose date d satisfies from_date <= d <= to_date, both bounds inclusive *)
(* and each optional, in the order of the input; a row whose date cannot   *)
(* be parsed is left out as soon as one bound is given, and without bounds *)
(* every row is kept.                                                      *)
(***************************************************************************)
\* The date of a row, parsed.
DateOf(r) == ToDatetime(r[pre_mapping.date_column])

InRange(r) ==
    /\ from_date_arg # None =>
          (DateOf(r) # NaT /\ DateRank(from_date_arg) <= DateRank(DateOf(r)))
    /\ to_date_arg # None =>
          (DateOf(r) # NaT /\ DateRank(DateOf(r)) <= DateRank(to_date_arg))

\* The invoice numbers of a table, in its order (each row of the pool has
\* its own).
InvoiceNumbers(df) == [i \in Idx(df) |-> df[i]["Invoice Number"]]

C28_FuzzySatisfiesValueCriterion ==
    \A e \in Paired :
        e.ghost_strategy = "fuzzy" =>
            /\ \/ Abs(df_csv[e.b].taxable_value - e.row.taxable_value) * 100
                     < 10 * e.row.taxable_value
               \/ Abs(df_csv[e.b].taxable_value - e.row.taxable_value) < 100 * Rupee
            /\ e \in Range(mismatched) =>
                  /\ e.row.rate # 0 /\ df_csv[e.b].rate # 0
                  /\ e.row.rate # df_csv[e.b].rate

\* A pairing by amount similarity in the mismatched bucket, and one in the
\* matched bucket.
C28_Witness ==
    /\ \E e \in Range(mismatched) : e.ghost_strategy = "fuzzy"
    /\ \E e \in Range(matched) :
          e.ghost_strategy = "fuzzy" /\ df_csv[e.b].taxable_value # e.row.taxable_value

(***************************************************************************)
(* The normalization of invoice numbers on its own: one GSTR-2B record     *)
(* whose invoice number is one or two listed prefixes, a separator and a   *)
(* digit string, against one purchase-register row whose invoice number is *)
(* a digit string, with amounts too far apart for the amount strategy.     *)
(***************************************************************************)
Separators == {<<>>, <<"-">>, <<"/">>}
DigitStrings == {<<"0","0","1">>, <<"4","5">>}
ListedPrefixes == Range(prefixes)
PrefixedNumbers ==
    {p \o q \o sep \o n : p \in ListedPrefixes, q \in ListedPrefixes \cup {<<>>},
                          sep \in Separators, n \in DigitStrings}

InitNormalize ==
    /\ df_2b \in {StandardizeTable(<<Inv("29AAA", x, 100000, 18)>>) : x \in PrefixedNumbers}
    /\ df_csv \in {StandardizeTable(<<Inv("29AAA", n, 900000, 18)>>) : n \in DigitStrings}
    /\ csv_index = Idx(df_csv)
    /\ rowPos = 0
    /\ matched = <<>> /\ mismatched = <<>>
    /\ missing_in_csv = <<>> /\ missing_in_json = <<>>
    /\ summary = <<>>
    /\ mainPc = "loop"
    /\ IdleBooks /\ IdleEway /\ IdleCmp /\ IdleProc

SpecNormalize == InitNormalize /\ [][NextMain]_vars

(***************************************************************************)
(* C29  Prefix-insensitivity of normalize_invoice_num: for every listed    *)
(* prefix p ('INV', 'INVOICE', 'BILL', 'SI', 'TAX') and every digit string *)
(* n, the normalized-text key of p followed by n, with any separators, is  *)
(* the normalized-text key of n alone; and exactly one leading prefix is   *)
(* removed, the longest listed prefix the cleaned number starts with.      *)
(***************************************************************************)
\* The invoice number without its separators.
Cleaned(inv) == SelectSeq(inv, IsAlnum)

\* inv is one listed prefix followed by digits only.
IsPrefixPlusDigits(inv) ==
    \E p \in ListedPrefixes :
        /\ StartsWith(Cleaned(inv), p)
        /\ Len(Cleaned(inv)) > Len(p)
        /\ \A k \in Len(p) + 1 .. Len(Cleaned(inv)) : IsDigit(Cleaned(inv)[k])

\* The longest listed prefix that str starts with, cut from str.
WithoutLongestPrefix(str) ==
    LET starts == {p \in ListedPrefixes : StartsWith(str, p)}
    IN  IF starts = {} THEN str
        ELSE LET p == CHOOSE q \in starts : \A r \in starts : Len(r) <= Len(q)
             IN  SubSeq(str, Len(p) + 1, Len(str))

\* A record p n that was paired with the record n has the key of n.
C29_PrefixInsensitive ==
    \A e \in Paired :
        (/\ IsPrefixPlusDigits(e.row.inv_num)
         /\ df_csv[e.b].inv_num = SelectSeq(e.row.inv_num, IsDigit))
        => e.row.norm_inv_num = df_csv[e.b].norm_inv_num

\* The key of a processed record is its cleaned number without the longest
\* listed prefix it starts with.
C29_LongestPrefixRemoved ==
    \A e \in Paired \cup Range(missing_in_csv) :
        e.row.norm_inv_num = WithoutLongestPrefix(Cleaned(e.row.inv_num))

(***************************************************************************)
(* The purchase-register variant, on the headers of its two tables: a      *)
(* caller applies standardize_columns to both tables, then map_columns,    *)
(* then reconcile, which reads the three key columns of every row.  The    *)
(* headers are field names of GSTR2_BOOKS_MAPPING: the keys on the GSTR-2  *)
(* side and the values on the Books side.                                  *)
(***************************************************************************)
\* The spelling of the field names of GSTR2_BOOKS_MAPPING, character by
\* character.
Spell(name) ==
    CASE name = "GSTIN of Supplier" ->
           <<"G", "S", "T", "I", "N", " ", "o", "f", " ", "S", "u", "p", "p", "l", "i", "e", "r">>
      [] name = "Vendor GSTIN" ->
           <<"V", "e", "n", "d", "o", "r", " ", "G", "S", "T", "I", "N">>
      [] name = "Trade/Legal Name" ->
           <<"T", "r", "a", "d", "e", "/", "L", "e", "g", "a", "l", " ", "N", "a", "m", "e">>
      [] name = "Vendor Name" ->
           <<"V", "e", "n", "d", "o", "r", " ", "N", "a", "m", "e">>
      [] name = "Invoice Number" ->
           <<"I", "n", "v", "o", "i", "c", "e", " ", "N", "u", "m", "b", "e", "r">>
      [] name = "Purchase Invoice No." ->
           <<"P", "u", "r", "c", "h", "a", "s", "e", " ", "I", "n", "v", "o", "i", "c", "e", " ", "N", "o", ".">>
      [] name = "Invoice Date" ->
           <<"I", "n", "v", "o", "i", "c", "e", " ", "D", "a", "t", "e">>
      [] name = "Invoice Value" ->
           <<"I", "n", "v", "o", "i", "c", "e", " ", "V", "a", "l", "u", "e">>
      [] name = "Place of Supply" ->
           <<"P", "l", "a", "c", "e", " ", "o", "f", " ", "S", "u", "p", "p", "l", "y">>
      [] name = "State/Code" ->
           <<"S", "t", "a", "t", "e", "/", "C", "o", "d", "e">>
      [] name = "Reverse Charge" ->
           <<"R", "e", "v", "e", "r", "s", "e", " ", "C", "h", "a", "r", "g", "e">>
      [] name = "RCM Applicable" ->
           <<"R", "C", "M", " ", "A", "p", "p", "l", "i", "c", "a", "b", "l", "e">>
      [] name = "Invoice Type" ->
           <<"I", "n", "v", "o", "i", "c", "e", " ", "T", "y", "p", "e">>
      [] name = "Rate" ->
           <<"R", "a", "t", "e">>
      [] name = "Taxable Value" ->
           <<"T", "a", "x", "a", "b", "l", "e", " ", "V", "a", "l", "u", "e">>
      [] name = "Integrated Tax" ->
           <<"I", "n", "t", "e", "g", "r", "a", "t", "e", "d", " ", "T", "a", "x">>
      [] name = "IGST" ->
           <<"I", "G", "S", "T">>
      [] name = "Central Tax" ->
           <<"C", "e", "n", "t", "r", "a", "l", " ", "T", "a", "x">>
      [] name = "CGST" ->
           <<"C", "G", "S", "T">>
      [] name = "State/UT Tax" ->
           <<"S", "t", "a", "t", "e", "/", "U", "T", " ", "T", "a", "x">>
      [] name = "SGST/UTGST" ->
           <<"S", "G", "S", "T", "/", "U", "T", "G", "S", "T">>
      [] name = "Cess" ->
           <<"C", "e", "s", "s">>
      [] name = "ITC Availability" ->
           <<"I", "T", "C", " ", "A", "v", "a", "i", "l", "a", "b", "i", "l", "i", "t", "y">>
      [] name = "ITC Eligible" ->
           <<"I", "T", "C", " ", "E", "l", "i", "g", "i", "b", "l", "e">>
      [] name = "Reason" ->
           <<"R", "e", "a", "s", "o", "n">>
      [] name = "Ineligibility Reason" ->
           <<"I", "n", "e", "l", "i", "g", "i", "b", "i", "l", "i", "t", "y", " ", "R", "e", "a", "s", "o", "n">>

\* list(self.mapping.keys()), list(self.mapping.values())
gstr2_cols == {Spell(k) : k \in DOMAIN GSTR2_BOOKS_MAPPING}
books_cols == {Spell(GSTR2_BOOKS_MAPPING[k][1]) : k \in DOMAIN GSTR2_BOOKS_MAPPING}

\* key_columns of GSTR2BooksReconciliation.reconcile
key_columns ==
    {Spell("Invoice Number"), Spell("Invoice Date"), Spell("GSTIN of Supplier")}

\* map_columns: the GSTR-2 columns that are keys of the mapping (and
\* GSTR_Type); the Books columns that are values of the mapping, renamed to
\* their keys.
MappedGstr2(columns) ==
    (gstr2_cols \cap columns) \cup ({ColGSTRType} \cap columns)

MappedBooks(columns) ==
    {Spell(k) : k \in {x \in DOMAIN GSTR2_BOOKS_MAPPING :
                          Spell(GSTR2_BOOKS_MAPPING[x][1]) \in columns}}

StandardizeColumns ==
    /\ loadPc = "headers"
    /\ gstr_columns' = standardize_columns(load_variant, gstr_columns)
    /\ books_columns' = standardize_columns(load_variant, books_columns)
    /\ loadPc' = "standardized"
    /\ UNCHANGED <<load_variant, gstr_df, books_df, results, booksPc, callVars>>
    /\ UNCHANGED <<ewayVars, mainVars, cmpVars, procVars>>

MapColumns ==
    /\ loadPc = "standardized"
    /\ gstr_columns' = MappedGstr2(gstr_columns)
    /\ books_columns' = MappedBooks(books_columns)
    /\ loadPc' = "mapped"
    /\ UNCHANGED <<load_variant, gstr_df, books_df, results, booksPc, callVars>>
    /\ UNCHANGED <<ewayVars, mainVars, cmpVars, procVars>>

\* reconcile on the mapped tables: x['GSTIN of Supplier'] and the two other
\* key cells are read for every row, so a missing key column is an error,
\* re-raised as "Error during reconciliation".
ReconcileMapped ==
    /\ loadPc = "mapped"
    /\ loadPc' = IF key_columns \subseteq gstr_columns /\ key_columns \subseteq books_columns
                 THEN "keyed" ELSE "raised"
    /\ UNCHANGED <<load_variant, gstr_columns, books_columns>>
    /\ UNCHANGED <<gstr_df, books_df, results, booksPc, callVars>>
    /\ UNCHANGED <<ewayVars, mainVars, cmpVars, procVars>>

\* Headers of a file: the three key fields with all the other fields of the
\* mapping or with some of four of them, as they are or padded with blanks.
Pad(col) == <<" ">> \o col \o <<" ">>

OptionalFields == {"Invoice Value", "Taxable Value", "Integrated Tax", "Rate"}

FieldChoices ==
    {DOMAIN GSTR2_BOOKS_MAPPING}
      \cup {{"Invoice Number", "Invoice Date", "GSTIN of Supplier"} \cup S :
               S \in SUBSET OptionalFields}

Gstr2Headers ==
    {{Spell(k) : k \in F} : F \in FieldChoices}
      \cup {{Pad(Spell(k)) : k \in F} : F \in FieldChoices}

BooksHeaders ==
    {{Spell(GSTR2_BOOKS_MAPPING[k][1]) : k \in F} : F \in FieldChoices}
      \cup {{Pad(Spell(GSTR2_BOOKS_MAPPING[k][1])) : k \in F} : F \in FieldChoices}

InitMap ==
    /\ load_variant = "gstr2_books"
    /\ gstr_columns \in Gstr2Headers
    /\ books_columns \in BooksHeaders
    /\ loadPc = "headers"
    /\ gstr_df = <<>> /\ books_df = <<>> /\ results = <<>> /\ booksPc = "idle"
    /\ IdleCalls /\ IdleEway /\ IdleMain /\ IdleCmp /\ IdleProc

NextMap == StandardizeColumns \/ MapColumns \/ ReconcileMapped

SpecMap == InitMap /\ [][NextMap]_vars

(***************************************************************************)
(* C30  Header normalization in the purchase-register variant keeps the    *)
(* mapped columns recognisable: for tables whose headers are field names   *)
(* of GSTR2_BOOKS_MAPPING, possibly padded with blanks, after              *)
(* standardize_columns and map_columns both mapped tables contain the key  *)
(* columns 'Invoice Number', 'Invoice Date' and 'GSTIN of Supplier', so    *)
(* that reconcile derives a key for every record.                          *)
(***************************************************************************)
C30_KeyColumnsKept ==
    /\ loadPc \in {"mapped", "keyed", "raised"} =>
          /\ key_columns \subseteq gstr_columns
          /\ key_columns \subseteq books_columns
    /\ loadPc # "raised"

====
